---- MODULE Spec2Model ----
(***************************************************************************)
(* Model of the record normalisation and deduplication layer of the       *)
(* harvest package: the bibliographic version resolver of harvest/hal.py, *)
(* the partner merger of harvest/partners.py, the personnel pipeline of   *)
(* harvest/team.py, the sheet fetchers of harvest/software and the        *)
(* classifiers and field parsers they use.                                *)
(*                                                                         *)
(* Python strings are sequences of code points (<<104, 49>> is "h1"), so   *)
(* that strip(), lower(), str() and string comparison are computed and    *)
(* not assumed.  A Python value is a record [t, s, n, l]: t is the type   *)
(* tag, s the text of a str, n the number of an int, l the elements of a  *)
(* list of str.  A dict is a function from its keys; an absent key holds  *)
(* Missing.                                                                *)
(***************************************************************************)
EXTENDS Integers, Sequences, FiniteSets, TLC

VARIABLES
    publications,   \* hal.py: the raw batch handed to select_best_versions
    selected,       \* hal.py: the list select_best_versions returned
    reselected,     \* hal.py: select_best_versions applied to its own result
    type_info,      \* hal.py: infer_publication_type of every record of the batch
    hal_pc,         \* position of the publication pipeline
    rows,           \* partners.py: the rows of the sheet, row.to_dict() of each
    partners,       \* partners.py: the ExternalPartner objects of the fetched collection
    deduplicated,   \* partners.py: the partners of the collection deduplicate() returned,
                    \* as positions in partners (they are the same objects)
    source,         \* the partner records as they were when deduplicate() was called
    partners_pc,    \* position of the partner pipeline
    arg,            \* the argument of a call of a classifier or field parser
    ret,            \* what the call returned, or the exception it raised
    call_pc,        \* position of the call
    team_rows,      \* team.py: the rows of the personnel sheet, row.to_dict() of each
    recruited,      \* team.py: the RecruitedCollection the last fetch() returned
    recruited_before, \* team.py: the RecruitedCollection the fetch() before it returned
    unique,         \* team.py: what unique_personnel() returned
    active,         \* team.py: is_active of every person at its last evaluation
    now,            \* datetime.now(), as a position in Clock
    fetch_options,  \* team.py: the arguments of the last fetch()
    team_pc,        \* position of the personnel pipeline
    packaging_rows,   \* software/fetcher.py: the rows of the packaging sheet
    software_rows,    \* software/fetcher.py: the rows of the frameworks sheet
    application_rows, \* software/fetcher.py: the rows of the applications sheet
    packages,         \* the SoftwareCollection fetch() returned
    eligible,         \* what eligible_packages of that collection returned
    applications,     \* the ApplicationCollection fetch_applications() returned
    software_pc,      \* position of the software fetch
    applications_pc,  \* position of the applications fetch
    server,           \* hal.py: the search server fetch_publications talks to
    start,            \* hal.py: the offset of the next request
    total,            \* hal.py: numFound of the first response, None before it
    request,          \* hal.py: the offset of the request in flight
    requests,         \* hal.py: the requests issued so far
    cache_files,      \* software/cache.py: the files of the cache directory, by key
    cache_ttl,        \* software/cache.py: ttl_seconds of the SoftwareCache
    cache_now,        \* software/cache.py: datetime.now(), in seconds after CacheEpoch
    last_call,        \* software/cache.py: the last call, and what it returned
    stored,           \* per source, the last set() that no invalidate or clear followed
    fetched,          \* per source, what the underlying fetcher returned last
    rendered,         \* team.py: the personnel list a generator renders
    by_wp,            \* team.py: what by_work_package() returned
    view_pc,          \* position of the generators
    config,           \* releases.py: the configuration load_config returned
    github,           \* releases.py: per repository, what fetch_releases returns
    latest_only,      \* releases.py: the latest_only argument of the call
    all_releases,     \* releases.py: what fetch_all_deliverables returned
    releases_pc       \* position of the release harvest

hal_vars == <<publications, selected, reselected, type_info, hal_pc>>
partner_vars == <<rows, partners, deduplicated, source, partners_pc>>
call_vars == <<arg, ret, call_pc>>
team_vars ==
    <<team_rows, recruited, recruited_before, unique, active, now, fetch_options, team_pc>>
software_vars ==
    <<packaging_rows, software_rows, application_rows, packages, eligible, applications,
      software_pc, applications_pc>>
paging_vars == <<server, start, total, request, requests>>
cache_vars == <<cache_files, cache_ttl, cache_now, last_call, stored, fetched>>
view_vars == <<rendered, by_wp, view_pc>>
release_vars == <<config, github, latest_only, all_releases, releases_pc>>
vars ==
    <<hal_vars, partner_vars, call_vars, team_vars, software_vars, paging_vars, cache_vars,
      view_vars, release_vars>>

not_hal_vars ==
    <<partner_vars, call_vars, team_vars, software_vars, paging_vars, cache_vars, view_vars,
      release_vars>>
not_partner_vars ==
    <<hal_vars, call_vars, team_vars, software_vars, paging_vars, cache_vars, view_vars,
      release_vars>>
not_call_vars ==
    <<hal_vars, partner_vars, team_vars, software_vars, paging_vars, cache_vars, view_vars,
      release_vars>>
not_team_vars ==
    <<hal_vars, partner_vars, call_vars, software_vars, paging_vars, cache_vars, view_vars,
      release_vars>>
not_software_vars ==
    <<hal_vars, partner_vars, call_vars, team_vars, paging_vars, cache_vars, view_vars,
      release_vars>>
not_paging_vars == <<partner_vars, call_vars, team_vars, software_vars, cache_vars, view_vars,
      release_vars>>
not_cache_vars ==
    <<hal_vars, partner_vars, call_vars, team_vars, software_vars, paging_vars, view_vars,
      release_vars>>
not_view_vars ==
    <<hal_vars, partner_vars, call_vars, software_vars, paging_vars, cache_vars,
      release_vars>>

not_release_vars ==
    <<hal_vars, partner_vars, call_vars, team_vars, software_vars, paging_vars, cache_vars,
      view_vars>>

\* a pipeline that is not run
HalIdle ==
    /\ publications = <<>>
    /\ selected = <<>>
    /\ reselected = <<>>
    /\ type_info = <<>>
    /\ hal_pc = "idle"

PartnersIdle ==
    /\ rows = <<>>
    /\ partners = <<>>
    /\ deduplicated = <<>>
    /\ source = <<>>
    /\ partners_pc = "idle"

CallIdle ==
    /\ arg = <<>>
    /\ ret = <<>>
    /\ call_pc = "idle"

TeamIdle ==
    /\ team_rows = <<>>
    /\ recruited = <<>>
    /\ recruited_before = <<>>
    /\ unique = <<>>
    /\ active = <<>>
    /\ now = 1
    /\ fetch_options = <<>>
    /\ team_pc = "idle"

\* no paging loop is run: the raw batch is given
PagingIdle ==
    /\ server = <<>>
    /\ start = 0
    /\ total = <<>>
    /\ request = 0
    /\ requests = 0

\* no cache is used
CacheIdle ==
    /\ cache_files = <<>>
    /\ cache_ttl = 0
    /\ cache_now = 0
    /\ last_call = <<>>
    /\ stored = <<>>
    /\ fetched = <<>>

\* no release harvest is run
ReleasesIdle ==
    /\ config = <<>>
    /\ github = <<>>
    /\ latest_only = FALSE
    /\ all_releases = <<>>
    /\ releases_pc = "idle"

\* no generator is run
ViewIdle ==
    /\ rendered = <<>>
    /\ by_wp = <<>>
    /\ view_pc = "idle"

SoftwareIdle ==
    /\ packaging_rows = <<>>
    /\ software_rows = <<>>
    /\ application_rows = <<>>
    /\ packages = <<>>
    /\ eligible = <<>>
    /\ applications = <<>>
    /\ software_pc = "idle"
    /\ applications_pc = "idle"

(***************************************************************************)
(* Bounds                                                                  *)
(***************************************************************************)
MaxBatch == 3      \* records of one raw batch
MaxVersions == 2   \* revisions of one publication in the scoring batches
MaxRows == 3       \* rows of the partner sheet

(***************************************************************************)
(* Python values                                                           *)
(***************************************************************************)
Missing == [t |-> "missing", s |-> <<>>, n |-> 0, l |-> <<>>]
None == [t |-> "none", s |-> <<>>, n |-> 0, l |-> <<>>]
NaN == [t |-> "nan", s |-> <<>>, n |-> 0, l |-> <<>>]
StrV(x) == [t |-> "str", s |-> x, n |-> 0, l |-> <<>>]
IntV(x) == [t |-> "int", s |-> <<>>, n |-> x, l |-> <<>>]
ListV(x) == [t |-> "list", s |-> <<>>, n |-> 0, l |-> x]
\* a dict, as the list of its items
DictV(x) == [t |-> "dict", s |-> <<>>, n |-> 0, l |-> x]
\* True and False
BoolV(x) == [t |-> "bool", s |-> <<>>, n |-> IF x THEN 1 ELSE 0, l |-> <<>>]
\* a non-negative float with one decimal, such as 1.0 or 0.5, held in tenths
FloatV(tenths) == [t |-> "float", s |-> <<>>, n |-> tenths, l |-> <<>>]

\* str.isspace() of one ASCII code point
IsSpace(c) == c \in {9, 10, 11, 12, 13, 28, 29, 30, 31, 32}

RECURSIVE lstrip(_)
lstrip(s) ==
    IF s = <<>> THEN s
    ELSE IF IsSpace(Head(s)) THEN lstrip(Tail(s)) ELSE s

RECURSIVE rstrip(_)
rstrip(s) ==
    IF s = <<>> THEN s
    ELSE IF IsSpace(s[Len(s)]) THEN rstrip(SubSeq(s, 1, Len(s) - 1)) ELSE s

\* str.strip()
strip(s) == rstrip(lstrip(s))

\* mutant: the name is not lower-cased
lower_missing(s) == s

\* str.lower() on ASCII and Latin-1 letters
lower(s) ==
    [i \in 1..Len(s) |->
        IF s[i] \in 65..90 \/ s[i] \in 192..214 \/ s[i] \in 216..222
        THEN s[i] + 32 ELSE s[i]]

\* a < b for Python strings: code point by code point, a proper prefix is less
RECURSIVE StrLess(_, _)
StrLess(a, b) ==
    IF b = <<>> THEN FALSE
    ELSE IF a = <<>> THEN TRUE
    ELSE IF Head(a) # Head(b) THEN Head(a) < Head(b)
    ELSE StrLess(Tail(a), Tail(b))

\* the decimal digits of a natural number
RECURSIVE Digits(_)
Digits(n) == IF n < 10 THEN <<48 + n>> ELSE Digits(n \div 10) \o <<48 + (n % 10)>>

RECURSIVE JoinQuoted(_)
JoinQuoted(l) ==
    IF l = <<>> THEN <<>>
    ELSE <<39>> \o Head(l) \o <<39>>
         \o (IF Len(l) > 1 THEN <<44, 32>> ELSE <<>>) \o JoinQuoted(Tail(l))

\* str(value)
str(value) ==
    CASE value.t = "str" -> value.s
      [] value.t = "int" -> IF value.n < 0 THEN <<45>> \o Digits(-value.n)
                            ELSE Digits(value.n)
      [] value.t = "float" -> Digits(value.n \div 10) \o <<46>> \o Digits(value.n % 10)
      [] value.t = "bool" -> IF value.n = 1 THEN <<84, 114, 117, 101>>  \* "True"
                             ELSE <<70, 97, 108, 115, 101>>  \* "False"
      [] value.t = "none" -> <<78, 111, 110, 101>>
      [] value.t = "nan" -> <<110, 97, 110>>
      [] value.t = "list" -> <<91>> \o JoinQuoted(value.l) \o <<93>>
      [] OTHER -> <<>>

\* dict.get(key, default)
get(d, key, default) == IF d[key].t = "missing" THEN default ELSE d[key]

RECURSIVE DigitsValue(_)
DigitsValue(s) ==
    IF s = <<>> THEN 0 ELSE 10 * DigitsValue(SubSeq(s, 1, Len(s) - 1)) + (s[Len(s)] - 48)

IsDigits(s) == s # <<>> /\ \A i \in 1..Len(s) : s[i] \in 48..57

\* int(version) inside try/except (TypeError, ValueError): the parsed number,
\* or the except branch's 0
int_or_zero(version) ==
    CASE version.t = "int" -> version.n
      [] version.t = "str" ->
            LET body == strip(version.s)
                signed == body # <<>> /\ Head(body) \in {43, 45}
                digits == IF signed THEN Tail(body) ELSE body
            IN  IF ~IsDigits(digits) THEN 0
                ELSE IF signed /\ Head(body) = 45 THEN -DigitsValue(digits)
                ELSE DigitsValue(digits)
      [] OTHER -> 0

(***************************************************************************)
(* harvest/hal.py                                                          *)
(***************************************************************************)
first_str(value) ==
    IF value.t = "list"
    THEN (IF value.l # <<>> THEN value.l[1] ELSE <<>>)
    ELSE IF value.t # "none" THEN str(value) ELSE <<>>

\* the codes of HAL_DOC_TYPE_TO_PUBLICATION_TYPE
ART == <<65, 82, 84>>  \* "ART"
COMM == <<67, 79, 77, 77>>  \* "COMM"
COUV == <<67, 79, 85, 86>>  \* "COUV"
OUV == <<79, 85, 86>>  \* "OUV"
REPORT == <<82, 69, 80, 79, 82, 84>>  \* "REPORT"
THESE == <<84, 72, 69, 83, 69>>  \* "THESE"
HDR == <<72, 68, 82>>  \* "HDR"
POSTER == <<80, 79, 83, 84, 69, 82>>  \* "POSTER"
PATENT == <<80, 65, 84, 69, 78, 84>>  \* "PATENT"
SOFTWARE == <<83, 79, 70, 84, 87, 65, 82, 69>>  \* "SOFTWARE"
DATA == <<68, 65, 84, 65>>  \* "DATA"
UNDEFINED == <<85, 78, 68, 69, 70, 73, 78, 69, 68>>  \* "UNDEFINED"
OTHER_CODE == <<79, 84, 72, 69, 82>>  \* "OTHER"

HAL_DOC_TYPE_TO_PUBLICATION_TYPE(code) ==
    CASE code = ART -> "journal-article"
      [] code = COMM -> "conference-paper"
      [] code = COUV -> "book-chapter"
      [] code = OUV -> "book"
      [] code = REPORT -> "report"
      [] code = THESE -> "thesis"
      [] code = HDR -> "thesis"
      [] code = POSTER -> "poster"
      [] code = PATENT -> "patent"
      [] code = SOFTWARE -> "software"
      [] code = DATA -> "dataset"
      [] code = UNDEFINED -> "preprint"
      [] code = OTHER_CODE -> "other"
      [] OTHER -> "unmapped"

\* mutant: the conference title is tried before the journal title and the DOI
infer_conference_first(doc_type_code, journal_title, conference_title, doi) ==
    LET code == strip(doc_type_code)
        normalized == HAL_DOC_TYPE_TO_PUBLICATION_TYPE(code)
        promoted(fallback) ==
            IF conference_title # <<>> THEN "conference-paper"
            ELSE IF journal_title # <<>> \/ doi # <<>> THEN "journal-article"
            ELSE fallback
    IN  IF normalized # "unmapped"
        THEN [publication_type |->
                  IF normalized \in {"preprint", "other"} THEN promoted(normalized)
                  ELSE normalized,
              hal_doc_type |-> code]
        ELSE [publication_type |-> promoted("other"), hal_doc_type |-> code]

infer_publication_type(doc_type_code, journal_title, conference_title, doi) ==
    LET code == strip(doc_type_code)
        normalized == HAL_DOC_TYPE_TO_PUBLICATION_TYPE(code)
        promoted(fallback) ==
            IF journal_title # <<>> \/ doi # <<>> THEN "journal-article"
            ELSE IF conference_title # <<>> THEN "conference-paper"
            ELSE fallback
    IN  IF normalized # "unmapped"
        THEN [publication_type |->
                  IF normalized \in {"preprint", "other"} THEN promoted(normalized)
                  ELSE normalized,
              hal_doc_type |-> code]
        ELSE [publication_type |-> promoted("other"), hal_doc_type |-> code]

format_publication(pub) ==
    infer_publication_type(
        first_str(get(pub, "docType_s", StrV(<<>>))),
        first_str(get(pub, "journalTitle_s", StrV(<<>>))),
        first_str(get(pub, "conferenceTitle_s", StrV(<<>>))),
        first_str(get(pub, "doiId_s", StrV(<<>>))))

score_publication_version(pub) ==
    LET doc_type_code == strip(first_str(get(pub, "docType_s", StrV(<<>>))))
        journal_title == strip(first_str(get(pub, "journalTitle_s", StrV(<<>>))))
        conference_title == strip(first_str(get(pub, "conferenceTitle_s", StrV(<<>>))))
        doi == strip(first_str(get(pub, "doiId_s", StrV(<<>>))))
        s1 == IF doc_type_code = ART \/ journal_title # <<>> \/ doi # <<>> THEN 30 ELSE 0
        s2 == IF doi # <<>> THEN 10 ELSE 0
        s3 == IF doc_type_code = COMM \/ conference_title # <<>> THEN 20 ELSE 0
        s4 == IF doc_type_code \in {COUV, OUV, REPORT, THESE, HDR} THEN 15 ELSE 0
    IN  [score |-> s1 + s2 + s3 + s4,
         version_i |-> int_or_zero(get(pub, "version_i", None)),
         produced_date |-> first_str(get(pub, "producedDate_s", StrV(<<>>)))]

\* mutant: the revision number is compared before the score
VersionFirstLess(a, b) ==
    \/ a.version_i < b.version_i
    \/ a.version_i = b.version_i /\ a.score < b.score
    \/ a.score = b.score /\ a.version_i = b.version_i
       /\ StrLess(a.produced_date, b.produced_date)

\* a < b for the (score, version_i, produced_date) tuples
TupleLess(a, b) ==
    \/ a.score < b.score
    \/ a.score = b.score /\ a.version_i < b.version_i
    \/ a.score = b.score /\ a.version_i = b.version_i
       /\ StrLess(a.produced_date, b.produced_date)

\* mutant: a later record that ties with the best replaces it
RECURSIVE max_loop_last(_, _, _)
max_loop_last(pubs, i, best) ==
    IF i > Len(pubs) THEN best
    ELSE max_loop_last(pubs, i + 1,
                       IF TupleLess(score_publication_version(pubs[i]),
                                    score_publication_version(best))
                       THEN best ELSE pubs[i])

\* max(pubs, key=_score_publication_version): the first greatest element
RECURSIVE max_loop(_, _, _)
max_loop(pubs, i, best) ==
    IF i > Len(pubs) THEN best
    ELSE max_loop(pubs, i + 1,
                  IF TupleLess(score_publication_version(best),
                               score_publication_version(pubs[i]))
                  THEN pubs[i] ELSE best)

max_by_score(pubs) == max_loop(pubs, 2, pubs[1])

\* mutant: the uri_s fallback is left out
pub_key_no_uri(pub) ==
    LET h == strip(first_str(get(pub, "halId_s", StrV(<<>>))))
        d == strip(str(get(pub, "docid", StrV(<<>>))))
    IN  IF h # <<>> THEN h ELSE d

\* the grouping key of a record
pub_key(pub) ==
    LET h == strip(first_str(get(pub, "halId_s", StrV(<<>>))))
        u == strip(first_str(get(pub, "uri_s", StrV(<<>>))))
        d == strip(str(get(pub, "docid", StrV(<<>>))))
    IN  IF h # <<>> THEN h ELSE IF u # <<>> THEN u ELSE d

\* grouped.setdefault(key, []).append(pub); the dict keeps insertion order
setdefault_append(grouped, key, pub) ==
    IF \E j \in 1..Len(grouped) : grouped[j].key = key
    THEN [j \in 1..Len(grouped) |->
             IF grouped[j].key = key
             THEN [grouped[j] EXCEPT !.pubs = Append(@, pub)]
             ELSE grouped[j]]
    ELSE Append(grouped, [key |-> key, pubs |-> <<pub>>])

RECURSIVE group_loop(_, _, _)
group_loop(pubs, i, grouped) ==
    IF i > Len(pubs) THEN grouped
    ELSE group_loop(pubs, i + 1, setdefault_append(grouped, pub_key(pubs[i]), pubs[i]))

\* mutant: the count is the number of revisions dropped, not found
best_copy_dropped(pubs) ==
    [max_by_score(pubs) EXCEPT !["_hal_versions_found_i"] = IntV(Len(pubs) - 1)]

\* best_copy = dict(best); best_copy["_hal_versions_found_i"] = len(pubs)
best_copy(pubs) ==
    [max_by_score(pubs) EXCEPT !["_hal_versions_found_i"] = IntV(Len(pubs))]

sort_key(x) == first_str(get(x, "producedDate_s", StrV(<<>>)))

\* mutant: reverse=True is left out
RECURSIVE insert_asc(_, _)
insert_asc(sorted, x) ==
    IF sorted = <<>> THEN <<x>>
    ELSE IF StrLess(sort_key(x), sort_key(Head(sorted))) THEN <<x>> \o sorted
    ELSE <<Head(sorted)>> \o insert_asc(Tail(sorted), x)

\* mutant: the sort is not stable, x goes in front of the elements of equal key
RECURSIVE insert_unstable(_, _)
insert_unstable(sorted, x) ==
    IF sorted = <<>> THEN <<x>>
    ELSE IF ~StrLess(sort_key(x), sort_key(Head(sorted))) THEN <<x>> \o sorted
    ELSE <<Head(sorted)>> \o insert_unstable(Tail(sorted), x)

\* list.sort(key, reverse=True) is stable: x goes behind every element whose
\* key is greater than or equal to its own
RECURSIVE insert_desc(_, _)
insert_desc(sorted, x) ==
    IF sorted = <<>> THEN <<x>>
    ELSE IF StrLess(sort_key(Head(sorted)), sort_key(x)) THEN <<x>> \o sorted
    ELSE <<Head(sorted)>> \o insert_desc(Tail(sorted), x)

RECURSIVE sort_desc(_, _, _)
sort_desc(list, i, sorted) ==
    IF i > Len(list) THEN sorted
    ELSE sort_desc(list, i + 1, insert_desc(sorted, list[i]))

select_best_versions(pubs) ==
    LET grouped == group_loop(pubs, 1, <<>>)
        chosen == [g \in 1..Len(grouped) |-> best_copy(grouped[g].pubs)]
    IN  sort_desc(chosen, 1, <<>>)

(***************************************************************************)
(* Raw batches.  A record of the HAL response is a dict over FIELDS; the   *)
(* batches are drawn from four families, each varying what one part of    *)
(* the resolver reads: the identity fields, the production date, the      *)
(* scoring fields, and the type fields of a single record.                *)
(***************************************************************************)
Pub(h, u, d, ty, j, c, doi, v, date) ==
    ("halId_s" :> h) @@ ("uri_s" :> u) @@ ("docid" :> d) @@ ("docType_s" :> ty)
    @@ ("journalTitle_s" :> j) @@ ("conferenceTitle_s" :> c) @@ ("doiId_s" :> doi)
    @@ ("version_i" :> v) @@ ("producedDate_s" :> date)
    @@ ("_hal_versions_found_i" :> Missing)

s_h1 == <<104, 49>>  \* "h1"
s_h2 == <<104, 50>>  \* "h2"
s_u2 == <<117, 50>>  \* "u2"
s_J == <<74>>  \* "J"
s_C == <<67>>  \* "C"
s_D == <<49, 48, 46, 49, 47, 120>>  \* "10.1/x"
s_2023 == <<50, 48, 50, 51>>  \* "2023"
s_2024 == <<50, 48, 50, 52>>  \* "2024"
s_2024_06 == <<50, 48, 50, 52, 45, 48, 54>>  \* "2024-06"

IdentityPubs ==
    { Pub(h, u, d, StrV(UNDEFINED), Missing, Missing, Missing, Missing, Missing) :
        h \in {Missing, StrV(<<32>>), StrV(s_h1 \o <<32>>)},
        u \in {Missing, StrV(s_h1), ListV(<<s_u2>>)},
        d \in {Missing, IntV(7)} }

DatePubs ==
    { Pub(StrV(h), Missing, Missing, StrV(ART), Missing, Missing, Missing, v, date) :
        h \in {s_h1, s_h2},
        v \in {IntV(1), StrV(<<50>>)},
        date \in {Missing, StrV(s_2023), StrV(s_2024), ListV(<<s_2024_06>>)} }

ScorePubs ==
    { Pub(StrV(s_h1), Missing, Missing, StrV(ty), m[1], m[2], m[3], v, StrV(date)) :
        ty \in {UNDEFINED, ART, THESE},
        m \in {<<Missing, Missing, Missing>>, <<StrV(s_J), Missing, Missing>>,
               <<Missing, StrV(s_C), Missing>>, <<Missing, Missing, StrV(s_D)>>},
        v \in {IntV(1), StrV(<<120>>)},
        date \in {s_2023, s_2024} }

TypePubs ==
    { Pub(StrV(s_h1), Missing, Missing, ty, j, c, doi, IntV(1), StrV(s_2023)) :
        ty \in {Missing, None, StrV(<<88, 89, 90>>), StrV(<<32>> \o ART)}
               \cup {StrV(code) : code \in {ART, COMM, COUV, OUV, REPORT, THESE, HDR,
                                            POSTER, PATENT, SOFTWARE, DATA, UNDEFINED,
                                            OTHER_CODE}},
        j \in {Missing, StrV(s_J), StrV(<<32>>)},
        c \in {Missing, StrV(s_C)},
        doi \in {Missing, StrV(s_D)} }

BatchesOf(S, n) == UNION { [1..k -> S] : k \in 0..n }

Batches ==
    BatchesOf(IdentityPubs, MaxBatch) \cup BatchesOf(DatePubs, MaxBatch)
    \cup BatchesOf(ScorePubs, MaxVersions) \cup BatchesOf(TypePubs, 1)

(***************************************************************************)
(* The publication pipeline: fetch_publications hands the raw batch to     *)
(* select_best_versions; the output functions format every record.        *)
(***************************************************************************)
HalInit ==
    /\ publications \in Batches
    /\ selected = <<>>
    /\ reselected = <<>>
    /\ type_info = <<>>
    /\ hal_pc = "fetched"
    /\ PartnersIdle
    /\ CallIdle
    /\ TeamIdle
    /\ SoftwareIdle
    /\ PagingIdle
    /\ CacheIdle
    /\ ViewIdle
    /\ ReleasesIdle

\* return select_best_versions(all_publications)
Resolve ==
    /\ hal_pc = "fetched"
    /\ selected' = select_best_versions(publications)
    /\ hal_pc' = "resolved"
    /\ UNCHANGED <<publications, reselected, type_info>>
    /\ UNCHANGED not_hal_vars

\* formatted = [format_publication(p) for p in publications]
Format ==
    /\ hal_pc = "resolved"
    /\ type_info' = [i \in 1..Len(selected) |-> format_publication(selected[i])]
    /\ hal_pc' = "formatted"
    /\ UNCHANGED <<publications, selected, reselected>>
    /\ UNCHANGED not_hal_vars

\* select_best_versions on a batch that is already resolved
ResolveAgain ==
    /\ hal_pc = "resolved"
    /\ reselected' = select_best_versions(selected)
    /\ hal_pc' = "reresolved"
    /\ UNCHANGED <<publications, selected, type_info>>
    /\ UNCHANGED not_hal_vars

HalNext == Resolve \/ Format \/ ResolveAgain

SpecHal == HalInit /\ [][HalNext]_vars

(***************************************************************************)
(* The paging loop of fetch_publications.  A request carries the offset    *)
(* start; the response carries numFound and a page of records.  A stable   *)
(* server holds the records 1 .. found and answers a request at offset s   *)
(* with a non-empty page of the records from s onward while s < found;     *)
(* any other server answers with any page, an empty one or one that        *)
(* repeats records included, and with any numFound or none.                *)
(***************************************************************************)
MaxFound == 3      \* records of the result set, and the largest numFound
PageRows == 2      \* the rows asked for in one request

\* the i-th record of the result set
ServerRecord(i) ==
    Pub(StrV(<<104>> \o Digits(i)), Missing, Missing, StrV(ART), Missing, Missing, Missing,
        IntV(1), StrV(s_2024))

Min(a, b) == IF a < b THEN a ELSE b

\* data["response"] of the answers the server can give to a request at offset s
Responses(s) ==
    IF server.kind = "stable"
    THEN IF s < server.found
         THEN { [numFound |-> IntV(server.found),
                 docs |-> [i \in 1..k |-> ServerRecord(s + i)]] :
                    k \in 1..Min(PageRows, server.found - s) }
         ELSE { [numFound |-> IntV(server.found), docs |-> <<>>] }
    ELSE { [numFound |-> n, docs |-> docs] :
              n \in {Missing} \cup {IntV(f) : f \in 0..MaxFound},
              docs \in BatchesOf({ServerRecord(1), ServerRecord(2)}, PageRows) }

\* mutant: the offset moves by the rows asked for
advance_by_rows(offset, docs) == offset + PageRows

\* start += len(docs)
advance(offset, docs) == offset + Len(docs)

PagingInit ==
    /\ server \in [kind : {"stable"}, found : 0..MaxFound] \cup {[kind |-> "any", found |-> 0]}
    /\ start = 0
    /\ total = None
    /\ request = 0
    /\ requests = 0
    /\ publications = <<>>
    /\ selected = <<>>
    /\ reselected = <<>>
    /\ type_info = <<>>
    /\ hal_pc = "paging"
    /\ PartnersIdle
    /\ CallIdle
    /\ TeamIdle
    /\ SoftwareIdle
    /\ CacheIdle
    /\ ViewIdle
    /\ ReleasesIdle

\* the top of the while loop: build_query_params(start=start) and urlopen
SendRequest ==
    /\ hal_pc = "paging"
    /\ request' = start
    /\ requests' = requests + 1
    /\ hal_pc' = "waiting"
    /\ UNCHANGED <<server, start, total>>
    /\ UNCHANGED <<publications, selected, reselected, type_info>>
    /\ UNCHANGED not_paging_vars

\* the rest of the loop body, from the response to the break or the next turn
Respond ==
    /\ hal_pc = "waiting"
    /\ \E response_data \in Responses(request) :
          LET found == IF total = None THEN get(response_data, "numFound", IntV(0))
                       ELSE total
              docs == response_data.docs
          IN  /\ total' = found
              /\ IF docs = <<>>
                 THEN /\ hal_pc' = "fetched"
                      /\ UNCHANGED <<publications, start>>
                 ELSE /\ publications' = publications \o docs
                      /\ start' = advance(start, docs)
                      /\ hal_pc' = IF advance(start, docs) >= found.n THEN "fetched"
                                   ELSE "paging"
    /\ UNCHANGED <<server, request, requests>>
    /\ UNCHANGED <<selected, reselected, type_info>>
    /\ UNCHANGED not_paging_vars

PagingNext == SendRequest \/ Respond \/ Resolve

\* the loop runs on, and urlopen returns or raises within its timeout
SpecPaging ==
    PagingInit /\ [][PagingNext]_vars /\ WF_vars(SendRequest) /\ WF_vars(Respond)

(***************************************************************************)
(* harvest/partners.py                                                     *)
(***************************************************************************)
\* the string literals of partners.py
t_large_scale_research_infrastructure == <<108, 97, 114, 103, 101, 32, 115, 99, 97, 108, 101, 32, 114, 101, 115, 101, 97, 114, 99, 104, 32, 105, 110, 102, 114, 97, 115, 116, 114, 117, 99, 116, 117, 114, 101>>  \* "large scale research infrastructure"
t_research_infrastructure == <<114, 101, 115, 101, 97, 114, 99, 104, 32, 105, 110, 102, 114, 97, 115, 116, 114, 117, 99, 116, 117, 114, 101>>  \* "research infrastructure"
t_public_research == <<112, 117, 98, 108, 105, 99, 32, 114, 101, 115, 101, 97, 114, 99, 104>>  \* "public research"
t_large_group == <<108, 97, 114, 103, 101, 32, 103, 114, 111, 117, 112>>  \* "large group"
t_sme == <<115, 109, 101>>  \* "sme"
t_mid_cap == <<109, 105, 100, 32, 99, 97, 112>>  \* "mid cap"
t_midcap == <<109, 105, 100, 99, 97, 112>>  \* "midcap"
t_entreprise == <<101, 110, 116, 114, 101, 112, 114, 105, 115, 101>>  \* "entreprise"
t_company == <<99, 111, 109, 112, 97, 110, 121>>  \* "company"
t_epic == <<101, 112, 105, 99>>  \* "epic"
t_academic == <<97, 99, 97, 100, 101, 109, 105, 99>>  \* "academic"
t_university == <<117, 110, 105, 118, 101, 114, 115, 105, 116, 121>>  \* "university"
t_universite_ == <<117, 110, 105, 118, 101, 114, 115, 105, 116, 195, 169>>  \* "universitÃ©"
t_positive == <<112, 111, 115, 105, 116, 105, 118, 101>>  \* "positive"
t_work_programme == <<119, 111, 114, 107, 32, 112, 114, 111, 103, 114, 97, 109, 109, 101>>  \* "work programme"
t_initial_email == <<105, 110, 105, 116, 105, 97, 108, 32, 101, 109, 97, 105, 108>>  \* "initial email"
t_not_contacted == <<110, 111, 116, 32, 99, 111, 110, 116, 97, 99, 116, 101, 100>>  \* "not contacted"
t_safran == <<115, 97, 102, 114, 97, 110>>  \* "safran"
t_edf == <<101, 100, 102>>  \* "edf"
t_onera == <<111, 110, 101, 114, 97>>  \* "onera"
t_airbus == <<97, 105, 114, 98, 117, 115>>  \* "airbus"
t_cerfacs == <<99, 101, 114, 102, 97, 99, 115>>  \* "cerfacs"
t_ifpen == <<105, 102, 112, 101, 110>>  \* "ifpen"
t_totalenergies == <<116, 111, 116, 97, 108, 101, 110, 101, 114, 103, 105, 101, 115>>  \* "totalenergies"
t_total == <<116, 111, 116, 97, 108>>  \* "total"
t_u_luxembourg == <<117, 32, 108, 117, 120, 101, 109, 98, 111, 117, 114, 103>>  \* "u luxembourg"
t_luxembourg == <<108, 117, 120, 101, 109, 98, 111, 117, 114, 103>>  \* "luxembourg"
t_default == <<100, 101, 102, 97, 117, 108, 116>>  \* "default"
t_hidalgo2 == <<104, 105, 100, 97, 108, 103, 111, 50>>  \* "hidalgo2"
t_coe_hidalgo2 == <<99, 111, 101, 45, 104, 105, 100, 97, 108, 103, 111, 50>>  \* "coe-hidalgo2"
t_other == <<111, 116, 104, 101, 114>>  \* "other"
t_organization == <<111, 114, 103, 97, 110, 105, 122, 97, 116, 105, 111, 110>>  \* "organization"

\* sub in s
Contains(s, sub) ==
    \E i \in 0..(Len(s) - Len(sub)) : SubSeq(s, i + 1, i + Len(sub)) = sub

\* x in list
Member(x, list) == \E i \in 1..Len(list) : list[i] = x

is_nan(value) ==
    \/ value.t = "none"
    \/ value.t = "nan"
    \/ value.t = "str" /\ strip(value.s) = <<>>

\* None, or the trimmed text
clean_string(value) == IF is_nan(value) THEN None ELSE StrV(strip(str(value)))

\* row.get(column): None for a column the sheet does not have
cell(row, column) == get(row, column, None)

\* bool(value) of a str | None
truthy(value) == value.t = "str" /\ value.s # <<>>

\* mutant: "sme" is looked for before "large group"
PartnerType_from_string_sme_first(value) ==
    IF ~truthy(value) THEN <<"OTHER", "UNKNOWN">>
    ELSE
      LET value_lower == strip(lower(value.s))
          size == IF Contains(value_lower, t_sme) THEN "SME"
                  ELSE IF Contains(value_lower, t_large_group) THEN "LARGE"
                  ELSE IF Contains(value_lower, t_mid_cap)
                          \/ Contains(value_lower, t_midcap) THEN "MIDCAP"
                  ELSE "UNKNOWN"
      IN  IF Contains(value_lower, t_entreprise) \/ Contains(value_lower, t_company)
          THEN <<"ENTREPRISE", size>>
          ELSE IF Contains(value_lower, t_epic) THEN <<"EPIC", "RESEARCH">>
          ELSE IF Contains(value_lower, t_academic)
                  \/ Contains(value_lower, t_university)
                  \/ Contains(value_lower, t_universite_)
          THEN <<"ACADEMIC", "RESEARCH">>
          ELSE IF Contains(value_lower, t_public_research)
          THEN <<"PUBLIC_RESEARCH", "RESEARCH">>
          ELSE IF Contains(value_lower, t_large_scale_research_infrastructure)
                  \/ Contains(value_lower, t_research_infrastructure)
          THEN <<"LARGE_SCALE_RESEARCH_INFRA", "RESEARCH">>
          ELSE <<"OTHER", size>>

\* PartnerType.from_string: the type and the company size of a label
PartnerType_from_string(value) ==
    IF ~truthy(value) THEN <<"OTHER", "UNKNOWN">>
    ELSE
      LET value_lower == strip(lower(value.s))
          size == IF Contains(value_lower, t_large_group) THEN "LARGE"
                  ELSE IF Contains(value_lower, t_sme) THEN "SME"
                  ELSE IF Contains(value_lower, t_mid_cap)
                          \/ Contains(value_lower, t_midcap) THEN "MIDCAP"
                  ELSE "UNKNOWN"
      IN  IF Contains(value_lower, t_entreprise) \/ Contains(value_lower, t_company)
          THEN <<"ENTREPRISE", size>>
          ELSE IF Contains(value_lower, t_epic) THEN <<"EPIC", "RESEARCH">>
          ELSE IF Contains(value_lower, t_academic)
                  \/ Contains(value_lower, t_university)
                  \/ Contains(value_lower, t_universite_)
          THEN <<"ACADEMIC", "RESEARCH">>
          ELSE IF Contains(value_lower, t_public_research)
          THEN <<"PUBLIC_RESEARCH", "RESEARCH">>
          ELSE IF Contains(value_lower, t_large_scale_research_infrastructure)
                  \/ Contains(value_lower, t_research_infrastructure)
          THEN <<"LARGE_SCALE_RESEARCH_INFRA", "RESEARCH">>
          ELSE <<"OTHER", size>>

PartnerStatus_from_string(value) ==
    IF ~truthy(value) THEN "UNKNOWN"
    ELSE
      LET value_lower == strip(lower(value.s))
      IN  IF Contains(value_lower, t_positive) THEN "POSITIVE_RESPONSE"
          ELSE IF Contains(value_lower, t_work_programme) THEN "WORK_PROGRAMME_DISCUSSED"
          ELSE IF Contains(value_lower, t_initial_email) THEN "INITIAL_EMAIL_SENT"
          ELSE IF Contains(value_lower, t_not_contacted) THEN "NOT_CONTACTED"
          ELSE "UNKNOWN"

\* the items of PARTNER_ICONS, in the order of the dict
PARTNER_ICONS ==
    << <<t_safran, "rocket">>, <<t_edf, "bolt">>, <<t_onera, "plane">>,
       <<t_airbus, "plane-departure">>, <<t_cerfacs, "server">>,
       <<t_ifpen, "gas-pump">>, <<t_totalenergies, "oil-can">>, <<t_total, "oil-can">>,
       <<t_u_luxembourg, "university">>, <<t_luxembourg, "university">>,
       <<t_default, "handshake">> >>

RECURSIVE icon_loop(_, _)
icon_loop(name_lower, i) ==
    IF i > Len(PARTNER_ICONS) THEN "handshake"
    ELSE IF Contains(name_lower, PARTNER_ICONS[i][1]) THEN PARTNER_ICONS[i][2]
    ELSE icon_loop(name_lower, i + 1)

get_partner_icon(partner_name) ==
    IF partner_name = <<>> THEN "handshake"
    ELSE icon_loop(strip(lower(partner_name)), 1)

\* mutant: the second codename is missing from the list
EXCLUDED_PARTNERS_short == {t_hidalgo2}

EXCLUDED_PARTNERS == {t_hidalgo2, t_coe_hidalgo2}

INVALID_DEPARTMENTS ==
    {t_entreprise, t_epic, t_academic, t_public_research,
     t_large_scale_research_infrastructure, t_other, t_company, t_organization}

\* mutant: the label is compared as written, not lower-cased
is_valid_department_cased(dept) ==
    IF dept = <<>> \/ strip(dept) = <<>> THEN FALSE
    ELSE strip(dept) \notin INVALID_DEPARTMENTS

is_valid_department(dept) ==
    IF dept = <<>> \/ strip(dept) = <<>> THEN FALSE
    ELSE strip(lower(dept)) \notin INVALID_DEPARTMENTS

\* the columns "Topics 1" .. "Topics 7" and "topics 1" .. "topics 7"
TopicColumn(i) ==
    <<"Topics 1", "Topics 2", "Topics 3", "Topics 4", "Topics 5", "Topics 6",
      "Topics 7">>[i]

TopicColumnLower(i) ==
    <<"topics 1", "topics 2", "topics 3", "topics 4", "topics 5", "topics 6",
      "topics 7">>[i]

RECURSIVE parse_topics_loop(_, _, _)
parse_topics_loop(row, i, topics) ==
    IF i > 7 THEN topics
    ELSE
      LET first == clean_string(cell(row, TopicColumn(i)))
          value == IF ~truthy(first) THEN clean_string(cell(row, TopicColumnLower(i)))
                   ELSE first
      IN  parse_topics_loop(row, i + 1,
              IF truthy(value) /\ ~Member(value.s, topics) THEN Append(topics, value.s)
              ELSE topics)

parse_topics(row) == parse_topics_loop(row, 1, <<>>)

\* an ExternalPartner, or None for a row without a name
parse_row(row) ==
    LET name == clean_string(cell(row, "Entreprises"))
        partner_type_raw == clean_string(cell(row, "Type of External Partners"))
        status_raw == clean_string(cell(row, "Status"))
        type_and_size == PartnerType_from_string(partner_type_raw)
        department == clean_string(cell(row, "Equipe ou departement de l'entreprise"))
        collaboration_type == clean_string(cell(row, "Type of Collaboration"))
        comment == clean_string(cell(row, "Commentaires"))
    IN  IF ~truthy(name) THEN None
        ELSE [t |-> "partner",
              name |-> name.s,
              partner_type |-> type_and_size[1],
              partner_type_raw |-> partner_type_raw,
              departments |-> IF truthy(department) /\ is_valid_department(department.s)
                              THEN <<department.s>> ELSE <<>>,
              contact_partner |-> clean_string(cell(row, "Contact Entreprise")),
              contact_exama |-> clean_string(cell(row, "Contact ExaMA")),
              exama_partner |-> clean_string(cell(row, "Partenaire ExaMA")),
              collaboration_types |-> IF truthy(collaboration_type)
                                      THEN <<collaboration_type.s>> ELSE <<>>,
              status |-> PartnerStatus_from_string(status_raw),
              status_raw |-> status_raw,
              topics |-> parse_topics(row),
              comments |-> IF truthy(comment) THEN <<comment.s>> ELSE <<>>,
              icon |-> get_partner_icon(name.s),
              company_size |-> type_and_size[2]]

\* for _, row in df.iterrows(): partner = self._parse_row(...); if partner: append
RECURSIVE fetch_loop(_, _, _)
fetch_loop(sheet, i, list) ==
    IF i > Len(sheet) THEN list
    ELSE LET partner == parse_row(sheet[i])
         IN  fetch_loop(sheet, i + 1,
                        IF partner.t = "partner" THEN Append(list, partner) ELSE list)

\* for x in values: if x and x not in existing and keep(x): existing.append(x)
RECURSIVE merge_list(_, _, _, _)
merge_list(existing, values, i, department) ==
    IF i > Len(values) THEN existing
    ELSE merge_list(
             IF values[i] # <<>> /\ ~Member(values[i], existing)
                /\ (department => is_valid_department(values[i]))
             THEN Append(existing, values[i]) ELSE existing,
             values, i + 1, department)

\* mutant: the multi-valued fields of the later row replace the earlier ones
merge_overwrite(existing, partner) ==
    [existing EXCEPT
        !.departments = merge_list(<<>>, partner.departments, 1, TRUE),
        !.collaboration_types = merge_list(<<>>, partner.collaboration_types, 1, FALSE),
        !.topics = merge_list(<<>>, partner.topics, 1, FALSE),
        !.comments = merge_list(<<>>, partner.comments, 1, FALSE)]

\* mutant: the contacts and the status of the later row are taken over too
merge_scalars_too(existing, partner) ==
    [existing EXCEPT
        !.departments = merge_list(@, partner.departments, 1, TRUE),
        !.collaboration_types = merge_list(@, partner.collaboration_types, 1, FALSE),
        !.topics = merge_list(@, partner.topics, 1, FALSE),
        !.comments = merge_list(@, partner.comments, 1, FALSE),
        !.contact_partner = IF truthy(partner.contact_partner)
                            THEN partner.contact_partner ELSE @,
        !.status = IF partner.status # "UNKNOWN" THEN partner.status ELSE @]

\* the else branch of the loop: the multi-valued fields of partner go into existing
merge_into(existing, partner) ==
    [existing EXCEPT
        !.departments = merge_list(@, partner.departments, 1, TRUE),
        !.collaboration_types = merge_list(@, partner.collaboration_types, 1, FALSE),
        !.topics = merge_list(@, partner.topics, 1, FALSE),
        !.comments = merge_list(@, partner.comments, 1, FALSE)]

\* d[key] = value on a dict kept as the sequence of its items
dict_set(d, key, value) ==
    IF \E j \in 1..Len(d) : d[j][1] = key
    THEN [j \in 1..Len(d) |-> IF d[j][1] = key THEN <<key, value>> ELSE d[j]]
    ELSE Append(d, <<key, value>>)

dict_has(d, key) == \E j \in 1..Len(d) : d[j][1] = key

dict_get(d, key) == d[CHOOSE j \in 1..Len(d) : d[j][1] = key][2]

\* the loop of deduplicate() over self.partners; objects holds the partner
\* objects, merged maps a name to the position of its object, name_map a
\* lower-cased name to the name
RECURSIVE deduplicate_loop(_, _, _, _)
deduplicate_loop(objects, i, merged, name_map) ==
    IF i > Len(objects) THEN [objects |-> objects, merged |-> merged]
    ELSE
      LET partner == objects[i]
          name_lower == lower(partner.name)
      IN  IF name_lower \in EXCLUDED_PARTNERS
          THEN deduplicate_loop(objects, i + 1, merged, name_map)
          ELSE IF ~dict_has(name_map, name_lower)
          THEN deduplicate_loop(objects, i + 1, dict_set(merged, partner.name, i),
                                dict_set(name_map, name_lower, partner.name))
          ELSE
            LET existing == dict_get(merged, dict_get(name_map, name_lower))
            IN  deduplicate_loop(
                    [objects EXCEPT ![existing] = merge_into(@, partner)],
                    i + 1, merged, name_map)

\* deduplicate(): the objects after the loop and list(merged.values())
deduplicate(objects) ==
    LET done == deduplicate_loop(objects, 1, <<>>, <<>>)
    IN  [objects |-> done.objects,
         partners |-> [j \in 1..Len(done.merged) |-> done.merged[j][2]]]


(***************************************************************************)
(* Properties of the version resolver                                      *)
(***************************************************************************)
Resolved == hal_pc = "resolved"

\* the text of a field: the first element of a list, "" when absent or null
Text(r, f) == first_str(get(r, f, StrV(<<>>)))

\* a record's identifier: halId_s if not blank, else uri_s if not blank, else docid
Identifier(r) ==
    IF strip(Text(r, "halId_s")) # <<>> THEN strip(Text(r, "halId_s"))
    ELSE IF strip(Text(r, "uri_s")) # <<>> THEN strip(Text(r, "uri_s"))
    ELSE strip(str(get(r, "docid", StrV(<<>>))))

\* the identifiers of the records of a batch, in the order of the batch
RECURSIVE IdentifiersOf(_)
IdentifiersOf(batch) ==
    IF batch = <<>> THEN <<>>
    ELSE <<Identifier(Head(batch))>> \o IdentifiersOf(Tail(batch))

\* the (score, revision, production date) triples of the records of a batch
RECURSIVE TriplesOf(_)
TriplesOf(batch) ==
    IF batch = <<>> THEN <<>>
    ELSE <<score_publication_version(Head(batch))>> \o TriplesOf(Tail(batch))

Range(list) == { list[i] : i \in 1..Len(list) }

WithoutCount(o) == [o EXCEPT !["_hal_versions_found_i"] = Missing]

RECURSIVE SumCounts(_)
SumCounts(list) ==
    IF list = <<>> THEN 0
    ELSE Head(list)["_hal_versions_found_i"].n + SumCounts(Tail(list))

\* C1: the output of select_best_versions holds exactly one record per distinct
\* identifier of the batch: as many records as the batch has identifiers, every
\* identifier of the batch among them, and no identifier twice.
C1_OnePerIdentifier ==
    Resolved =>
        LET id == IdentifiersOf(publications)
            out == IdentifiersOf(selected)
        IN  /\ Len(selected) = Cardinality(Range(id))
            /\ Range(out) = Range(id)
            /\ \A i, j \in 1..Len(selected) : i # j => out[i] # out[j]

\* three records, two of them one publication (one named by halId_s, the other by
\* uri_s behind a blank halId_s), resolved to two
C1_Witness ==
    /\ Resolved
    /\ Len(publications) = 3
    /\ Len(selected) = 2
    /\ \E i, j \in 1..3 :
           /\ i # j
           /\ Identifier(publications[i]) = Identifier(publications[j])
           /\ strip(Text(publications[i], "halId_s")) # <<>>
           /\ strip(Text(publications[j], "halId_s")) = <<>>

\* C2: resolving the resolved batch returns it unchanged: the same records in the
\* same order, every field included, the count of collapsed revisions too.
C2_Idempotent == hal_pc = "reresolved" => reselected = selected

\* C2 (amended): resolving the resolved batch returns the same records in the
\* same order with every field unchanged but the count of collapsed revisions,
\* which the second pass sets to 1 on every record.
C2_IdempotentExceptCount ==
    hal_pc = "reresolved" =>
        /\ Len(reselected) = Len(selected)
        /\ \A o \in 1..Len(selected) :
               /\ WithoutCount(reselected[o]) = WithoutCount(selected[o])
               /\ reselected[o]["_hal_versions_found_i"] = IntV(1)

\* a batch resolved to two records of one production date, one of them with two
\* collapsed revisions, and resolved again
C2_Witness ==
    /\ hal_pc = "reresolved"
    /\ Len(selected) = 2
    /\ sort_key(selected[1]) = sort_key(selected[2])
    /\ \E o \in 1..2 : selected[o]["_hal_versions_found_i"] = IntV(2)

\* C3: the record selected for an identifier is a record of that identifier's
\* group whose (score, revision, production date) triple no record of the group
\* exceeds, and the first such record of the batch; a missing or non-integer
\* revision counts as 0.
C3_BestOfGroup ==
    Resolved =>
        LET n == Len(publications)
            id == IdentifiersOf(publications)
            out == IdentifiersOf(selected)
            triple == TriplesOf(publications)
        IN  /\ \A o \in 1..Len(selected) :
                   \E k \in 1..n :
                       /\ WithoutCount(selected[o]) = publications[k]
                       /\ id[k] = out[o]
                       /\ \A i \in 1..n :
                              id[i] = id[k] =>
                                  /\ ~TupleLess(triple[k], triple[i])
                                  /\ i < k => TupleLess(triple[i], triple[k])
            /\ \A i \in 1..n :
                   (publications[i]["version_i"].t \in {"missing", "none"}
                    \/ (publications[i]["version_i"].t = "str"
                        /\ ~IsDigits(publications[i]["version_i"].s)))
                   => triple[i].version_i = 0

\* two revisions with equal triples that differ in another field, and a group in
\* which the revision number decides
C3_Witness ==
    /\ Resolved
    /\ Len(selected) = 1
    /\ \E i, j \in 1..Len(publications) :
           /\ i < j
           /\ publications[i] # publications[j]
           /\ score_publication_version(publications[i])
                  = score_publication_version(publications[j])
           /\ WithoutCount(selected[1]) = publications[i]

JournalLike(r) ==
    \/ strip(Text(r, "docType_s")) = ART
    \/ strip(Text(r, "journalTitle_s")) # <<>>
    \/ strip(Text(r, "doiId_s")) # <<>>

BareUndefined(r) ==
    /\ strip(Text(r, "docType_s")) = UNDEFINED
    /\ strip(Text(r, "journalTitle_s")) = <<>>
    /\ strip(Text(r, "doiId_s")) = <<>>
    /\ strip(Text(r, "conferenceTitle_s")) = <<>>

\* C4: of two records of one identifier, one a journal article (type ART, or with
\* a journal title or a DOI) and one of type UNDEFINED without journal title, DOI
\* or conference title, the journal article is selected, whatever the revision
\* numbers and the dates and whichever comes first.
C4_TypeScoreDominates ==
    (Resolved /\ Len(publications) = 2
     /\ Identifier(publications[1]) = Identifier(publications[2])) =>
        \A a, b \in 1..2 :
            (JournalLike(publications[a]) /\ BareUndefined(publications[b])) =>
                /\ Len(selected) = 1
                /\ WithoutCount(selected[1]) = publications[a]

\* the journal article comes second, with the lower revision and the earlier date
C4_Witness ==
    /\ Resolved
    /\ Len(publications) = 2
    /\ BareUndefined(publications[1])
    /\ JournalLike(publications[2])
    /\ score_publication_version(publications[2]).version_i
           < score_publication_version(publications[1]).version_i
    /\ StrLess(Text(publications[2], "producedDate_s"),
               Text(publications[1], "producedDate_s"))
    /\ WithoutCount(selected[1]) = publications[2]

\* C5: every selected record carries the number of records of the batch that
\* have its identifier, and the counts add up to the length of the batch.
C5_VersionsFound ==
    Resolved =>
        LET id == IdentifiersOf(publications)
            out == IdentifiersOf(selected)
        IN  /\ \A o \in 1..Len(selected) :
                   selected[o]["_hal_versions_found_i"]
                       = IntV(Cardinality({ i \in 1..Len(publications) : id[i] = out[o] }))
            /\ SumCounts(selected) = Len(publications)

C5_Witness ==
    /\ Resolved
    /\ Len(publications) = 3
    /\ \E o \in 1..Len(selected) : selected[o]["_hal_versions_found_i"] = IntV(2)
    /\ \E o \in 1..Len(selected) : selected[o]["_hal_versions_found_i"] = IntV(1)

\* C6: the selected records are in descending order of production date, a
\* missing date counting as the empty string.
C6_SortedByDate ==
    Resolved =>
        \A i \in 1..(Len(selected) - 1) :
            ~StrLess(Text(selected[i], "producedDate_s"),
                     Text(selected[i + 1], "producedDate_s"))

\* three publications given oldest first, one without date, returned newest first
C6_Witness ==
    /\ Resolved
    /\ Len(selected) = 2
    /\ Len(publications) = 3
    /\ StrLess(Text(publications[1], "producedDate_s"),
               Text(publications[3], "producedDate_s"))
    /\ Identifier(publications[1]) # Identifier(publications[3])
    /\ Text(selected[2], "producedDate_s") = <<>>
    /\ Text(selected[1], "producedDate_s") # <<>>

WeakType(code) ==
    HAL_DOC_TYPE_TO_PUBLICATION_TYPE(code) \in {"preprint", "other", "unmapped"}

\* C7: a weak type (UNDEFINED, OTHER, a missing or unmapped code) becomes
\* journal-article with a journal title or DOI, else conference-paper with a
\* conference title, else stays the table's type (other for an unmapped code);
\* any other code keeps the table's type.
C7_Promotion ==
    hal_pc = "formatted" =>
        \A i \in 1..Len(selected) :
            LET code == strip(Text(selected[i], "docType_s"))
                table == HAL_DOC_TYPE_TO_PUBLICATION_TYPE(code)
                got == type_info[i].publication_type
            IN  /\ (WeakType(code) /\ (Text(selected[i], "journalTitle_s") # <<>>
                                       \/ Text(selected[i], "doiId_s") # <<>>))
                       => got = "journal-article"
                /\ (WeakType(code) /\ Text(selected[i], "journalTitle_s") = <<>>
                    /\ Text(selected[i], "doiId_s") = <<>>
                    /\ Text(selected[i], "conferenceTitle_s") # <<>>)
                       => got = "conference-paper"
                /\ (WeakType(code) /\ Text(selected[i], "journalTitle_s") = <<>>
                    /\ Text(selected[i], "doiId_s") = <<>>
                    /\ Text(selected[i], "conferenceTitle_s") = <<>>)
                       => got = (IF table = "unmapped" THEN "other" ELSE table)
                /\ code \in {ART, COMM, COUV, OUV, REPORT, THESE, HDR, POSTER, PATENT,
                             SOFTWARE, DATA}
                       => got = table /\ ~WeakType(code)

\* an UNDEFINED record with a DOI and a conference title is a journal article
C7_Witness ==
    /\ hal_pc = "formatted"
    /\ Len(selected) = 1
    /\ strip(Text(selected[1], "docType_s")) = UNDEFINED
    /\ Text(selected[1], "journalTitle_s") = <<>>
    /\ Text(selected[1], "doiId_s") # <<>>
    /\ Text(selected[1], "conferenceTitle_s") # <<>>
    /\ type_info[1].publication_type = "journal-article"

(***************************************************************************)
(* Sheets.  A row is row.to_dict(): a dict over the columns of the sheet,  *)
(* an empty cell holding NaN.  The sheets are drawn from five families,   *)
(* each varying the cells one part of the merge reads.                    *)
(***************************************************************************)
Row(name, dept, collab, comment, contact, status, type, topics1, topics2, topics2l) ==
    ("Entreprises" :> name) @@ ("Equipe ou departement de l'entreprise" :> dept)
    @@ ("Type of Collaboration" :> collab) @@ ("Commentaires" :> comment)
    @@ ("Contact Entreprise" :> contact) @@ ("Contact ExaMA" :> contact)
    @@ ("Partenaire ExaMA" :> NaN) @@ ("Status" :> status)
    @@ ("Type of External Partners" :> type)
    @@ ("Topics 1" :> topics1) @@ ("Topics 2" :> topics2) @@ ("topics 2" :> topics2l)
    @@ [c \in {"Topics 3", "Topics 4", "Topics 5", "Topics 6", "Topics 7"} |-> NaN]
    @@ [c \in {"topics 1", "topics 3", "topics 4", "topics 5", "topics 6", "topics 7"}
            |-> Missing]

r_Acme == <<65, 99, 109, 101>>  \* "Acme"
r_ACME == <<65, 67, 77, 69>>  \* "ACME"
r_EDF == <<69, 68, 70>>  \* "EDF"
r_Hidalgo2 == <<72, 105, 100, 97, 108, 103, 111, 50>>  \* "Hidalgo2"
r_COE_HIDALGO2 == <<67, 79, 69, 45, 72, 73, 68, 65, 76, 71, 79, 50>>  \* "COE-HIDALGO2"
r_RnD == <<82, 38, 68>>  \* "R&D"
r_Sales == <<83, 97, 108, 101, 115>>  \* "Sales"
r_Academic == <<65, 99, 97, 100, 101, 109, 105, 99>>  \* "Academic"
r_hpc == <<104, 112, 99>>  \* "hpc"
r_ai == <<97, 105>>  \* "ai"
r_phd == <<80, 104, 68, 32, 99, 111, 45, 102, 117, 110, 100, 105, 110, 103>>  \* "PhD co-funding"
r_research == <<82, 101, 115, 101, 97, 114, 99, 104, 32, 67, 111, 108, 108, 97, 98, 111, 114, 97, 116, 105, 111, 110, 115>>  \* "Research Collaborations"
r_note == <<109, 101, 116, 32, 97, 116, 32, 83, 67, 50, 52>>  \* "met at SC24"
r_Ann == <<65, 110, 110>>  \* "Ann"
r_Bob == <<66, 111, 98>>  \* "Bob"
r_positive == <<80, 111, 115, 105, 116, 105, 118, 101, 32, 82, 101, 115, 112, 111, 110, 115, 101>>  \* "Positive Response"
r_sme == <<69, 110, 116, 114, 101, 112, 114, 105, 115, 101, 32, 45, 32, 83, 77, 69>>  \* "Entreprise - SME"

NameRows ==
    { Row(name, StrV(dept), NaN, NaN, NaN, NaN, NaN, NaN, NaN, NaN) :
        name \in {NaN, StrV(r_Acme), StrV(<<32>> \o r_ACME), StrV(r_EDF),
                  StrV(r_Hidalgo2)},
        dept \in {r_RnD, r_Sales} }

DeptRows ==
    { Row(StrV(name), dept, NaN, NaN, NaN, NaN, NaN, NaN, NaN, NaN) :
        name \in {r_Acme, r_ACME},
        dept \in {NaN, StrV(r_RnD), StrV(r_Sales), StrV(r_Academic), StrV(<<32>>)} }

TopicRows ==
    { Row(StrV(name), NaN, NaN, NaN, NaN, NaN, NaN, StrV(t1), t2[1], t2[2]) :
        name \in {r_Acme, r_ACME},
        t1 \in {r_hpc, r_ai},
        t2 \in {<<NaN, NaN>>, <<NaN, StrV(r_hpc)>>, <<StrV(r_ai), StrV(r_hpc)>>} }

ListRows ==
    { Row(StrV(name), NaN, collab, comment, NaN, NaN, NaN, NaN, NaN, NaN) :
        name \in {r_Acme, r_ACME},
        collab \in {NaN, StrV(r_phd), StrV(r_research)},
        comment \in {NaN, StrV(r_note)} }

ScalarRows ==
    { Row(StrV(name), NaN, NaN, NaN, contact, st[1], st[2], NaN, NaN, NaN) :
        name \in {r_Acme, r_ACME},
        contact \in {NaN, StrV(r_Ann), StrV(r_Bob)},
        st \in {<<NaN, NaN>>, <<StrV(r_positive), StrV(r_sme)>>} }

ExcludedRows ==
    { Row(StrV(name), StrV(dept), NaN, NaN, NaN, NaN, NaN, NaN, NaN, NaN) :
        name \in {r_Acme, r_Hidalgo2, r_COE_HIDALGO2},
        dept \in {r_RnD, r_Sales} }

Sheets ==
    BatchesOf(NameRows, MaxRows) \cup BatchesOf(DeptRows, MaxRows)
    \cup BatchesOf(ExcludedRows, MaxRows)
    \cup BatchesOf(TopicRows, MaxRows) \cup BatchesOf(ListRows, MaxRows)
    \cup BatchesOf(ScalarRows, MaxRows)

(***************************************************************************)
(* The partner pipeline: PartnersFetcher.fetch parses the rows into a      *)
(* collection and, when asked, deduplicates it; deduplicate() is also a   *)
(* method of the collection.                                               *)
(***************************************************************************)
PartnersInit ==
    /\ rows \in Sheets
    /\ partners = <<>>
    /\ deduplicated = <<>>
    /\ source = <<>>
    /\ partners_pc = "loaded"
    /\ HalIdle
    /\ CallIdle
    /\ TeamIdle
    /\ SoftwareIdle
    /\ PagingIdle
    /\ CacheIdle
    /\ ViewIdle
    /\ ReleasesIdle

\* PartnersFetcher.fetch(deduplicate)
Fetch(dedup) ==
    /\ partners_pc = "loaded"
    /\ LET collection == fetch_loop(rows, 1, <<>>)
           result == deduplicate(collection)
       IN  IF dedup
           THEN /\ partners' = result.objects
                /\ deduplicated' = result.partners
                /\ source' = collection
                /\ partners_pc' = "deduplicated"
           ELSE /\ partners' = collection
                /\ deduplicated' = <<>>
                /\ source' = <<>>
                /\ partners_pc' = "collected"
    /\ UNCHANGED rows
    /\ UNCHANGED not_partner_vars

\* PartnersCollection.deduplicate() on the collection fetch(False) returned
Deduplicate ==
    /\ partners_pc = "collected"
    /\ LET result == deduplicate(partners)
       IN  /\ partners' = result.objects
           /\ deduplicated' = result.partners
    /\ source' = partners
    /\ partners_pc' = "deduplicated"
    /\ UNCHANGED rows
    /\ UNCHANGED not_partner_vars

PartnersNext == (\E dedup \in BOOLEAN : Fetch(dedup)) \/ Deduplicate

SpecPartners == PartnersInit /\ [][PartnersNext]_vars

(***************************************************************************)
(* Properties of the partner merge                                         *)
(***************************************************************************)
Deduplicated == partners_pc = "deduplicated"

\* the i-th partner of the deduplicated collection
Result(i) == partners[deduplicated[i]]

\* a and b are equal ignoring case
SameName(a, b) ==
    /\ Len(a) = Len(b)
    /\ \A i \in 1..Len(a) :
           (IF a[i] \in 97..122 THEN a[i] - 32 ELSE a[i])
               = (IF b[i] \in 97..122 THEN b[i] - 32 ELSE b[i])

Excluded(name) == \E x \in EXCLUDED_PARTNERS : SameName(name, x)

\* position i of the source is the first row of its name, and the name is kept
FirstOfName(i) ==
    /\ ~Excluded(source[i].name)
    /\ \A j \in 1..(i - 1) : ~SameName(source[j].name, source[i].name)

\* the positions of the source rows that have the name of row i
RowsOfName(i) == { j \in 1..Len(source) : SameName(source[j].name, source[i].name) }

\* C8: after deduplicate() no two partners have names equal ignoring case, and the
\* partners are the first rows of the non-excluded names, in the order of the rows.
C8_OnePerName ==
    Deduplicated =>
        /\ \A i, j \in 1..Len(deduplicated) :
               i # j => ~SameName(Result(i).name, Result(j).name)
        /\ { deduplicated[k] : k \in 1..Len(deduplicated) }
               = { i \in 1..Len(source) : FirstOfName(i) }
        /\ \A k \in 1..(Len(deduplicated) - 1) : deduplicated[k] < deduplicated[k + 1]
        /\ \A k \in 1..Len(deduplicated) :
               Result(k).name = source[deduplicated[k]].name

\* three rows, two names that differ in case only and a third one in between
C8_Witness ==
    /\ Deduplicated
    /\ Len(source) = 3
    /\ Len(deduplicated) = 2
    /\ source[1].name # source[3].name
    /\ SameName(source[1].name, source[3].name)
    /\ ~SameName(source[1].name, source[2].name)

\* the values of field f in the rows js (ascending), one after the other
RECURSIVE Flatten(_, _, _)
Flatten(f, js, i) ==
    IF i > Len(source) THEN <<>>
    ELSE (IF i \in js THEN source[i][f] ELSE <<>>) \o Flatten(f, js, i + 1)

\* list without the later occurrences of a value
RECURSIVE FirstOccurrences(_, _)
FirstOccurrences(list, seen) ==
    IF list = <<>> THEN <<>>
    ELSE IF Head(list) \in seen THEN FirstOccurrences(Tail(list), seen)
    ELSE <<Head(list)>> \o FirstOccurrences(Tail(list), seen \cup {Head(list)})

ValidDepartment(d) ==
    \A x \in INVALID_DEPARTMENTS : ~SameName(strip(d), x)

\* the union of field f over the rows js, in order of first appearance
UnionOf(f, js) ==
    FirstOccurrences(
        SelectSeq(Flatten(f, js, 1),
                  LAMBDA v : v # <<>> /\ (f = "departments" => ValidDepartment(v))),
        {})

\* C9: the departments, collaboration types, topics and comments of a partner of
\* the result are the valid, non-empty values of all rows of its name, each once,
\* in order of first appearance.
C9_MergeIsUnion ==
    Deduplicated =>
        \A k \in 1..Len(deduplicated) :
            \A f \in {"departments", "collaboration_types", "topics", "comments"} :
                Result(k)[f] = UnionOf(f, RowsOfName(deduplicated[k]))

\* a partner that has a value of its first row, then one of a later row, after a
\* row in between repeated the first
C9_Witness ==
    /\ Deduplicated
    /\ Len(source) = 3
    /\ Len(deduplicated) = 1
    /\ \E f \in {"departments", "collaboration_types", "topics"} :
           /\ Len(source[1][f]) = 1 /\ source[2][f] = source[1][f]
           /\ Len(source[3][f]) > 0 /\ source[3][f] # source[1][f]
           /\ Len(Result(1)[f]) = 2
           /\ Result(1)[f][1] = source[1][f][1]

ScalarFields ==
    {"name", "contact_partner", "contact_exama", "exama_partner", "partner_type",
     "partner_type_raw", "company_size", "status", "status_raw", "icon"}

\* C10: the scalar fields of a partner of the result are those of the first row
\* of its name, whatever the later rows of that name hold.
C10_ScalarsFirstSeen ==
    Deduplicated =>
        \A k \in 1..Len(deduplicated) :
            /\ FirstOfName(deduplicated[k])
            /\ \A f \in ScalarFields : Result(k)[f] = source[deduplicated[k]][f]

\* a later row of the same name with another contact, status and type
C10_Witness ==
    /\ Deduplicated
    /\ Len(deduplicated) = 1
    /\ \E j \in 2..Len(source) :
           /\ truthy(source[j].contact_partner)
           /\ source[j].contact_partner # source[1].contact_partner
           /\ source[j].status # source[1].status
           /\ source[j].partner_type # source[1].partner_type
           /\ truthy(source[1].contact_partner)
    /\ Result(1).contact_partner = source[1].contact_partner

(***************************************************************************)
(* Exclusion list and department denylist                                  *)
(***************************************************************************)
\* name is one of the two excluded codenames, ignoring case
ExcludedCodename(name) ==
    \/ SameName(name, <<104, 105, 100, 97, 108, 103, 111, 50>>)  \* "hidalgo2"
    \/ SameName(name, <<99, 111, 101, 45, 104, 105, 100, 97, 108, 103, 111, 50>>)  \* "coe-hidalgo2"

\* the partners of a deduplicated collection, as values
PartnersOf(result) ==
    [k \in 1..Len(result.partners) |-> result.objects[result.partners[k]]]

\* C11: no partner of the result of deduplicate() has an excluded codename as its
\* name, ignoring case, and the result is what deduplicate() returns for the rows
\* without the excluded ones: those rows add nothing to any partner.
C11_ExcludedNeverAppear ==
    Deduplicated =>
        /\ \A k \in 1..Len(deduplicated) : ~ExcludedCodename(Result(k).name)
        /\ [k \in 1..Len(deduplicated) |-> Result(k)]
               = PartnersOf(deduplicate(
                     SelectSeq(source, LAMBDA p : ~ExcludedCodename(p.name))))

\* a kept partner between rows of both excluded codenames, each with a department
\* the kept partner does not have
C11_Witness ==
    /\ Deduplicated
    /\ Len(source) = 3
    /\ Len(deduplicated) = 1
    /\ SameName(source[1].name, t_hidalgo2)
    /\ SameName(source[3].name, t_coe_hidalgo2)
    /\ source[1].departments # source[2].departments
    /\ source[3].departments # source[2].departments
    /\ Result(1).departments = source[2].departments

\* C12: no partner of the result has a denylisted type label among its
\* departments, compared ignoring case after trimming, whether the label is in
\* the department cell of the first row of the partner or of a later one.
C12_NoDenylistedDepartment ==
    Deduplicated =>
        \A k \in 1..Len(deduplicated) :
            \A j \in 1..Len(Result(k).departments) :
                LET d == strip(Result(k).departments[j])
                IN  /\ d # <<>>
                    /\ \A x \in INVALID_DEPARTMENTS : ~SameName(d, x)

\* one partner of three rows: the first and the last row have the type label
\* "Academic" as their department, the row in between a department
C12_Witness ==
    /\ Deduplicated
    /\ Len(rows) = 3
    /\ Len(deduplicated) = 1
    /\ rows[1]["Equipe ou departement de l'entreprise"] = StrV(r_Academic)
    /\ rows[3]["Equipe ou departement de l'entreprise"] = StrV(r_Academic)
    /\ Len(Result(1).departments) = 1

(***************************************************************************)
(* Records without identity                                                *)
(***************************************************************************)
\* C18: a record with no identity (halId_s, uri_s and docid empty or absent) is
\* not in the output of select_best_versions, and the output is the one the
\* batch without such records gives: same records, same revision counts.
C18_NoIdentitySkipped ==
    Resolved =>
        /\ \A o \in 1..Len(selected) : Identifier(selected[o]) # <<>>
        /\ selected = select_best_versions(
                          SelectSeq(publications, LAMBDA r : Identifier(r) # <<>>))

(***************************************************************************)
(* harvest/team.py: parse_date                                             *)
(*                                                                         *)
(* A datetime is the value [t |-> "datetime", l |-> <<year, month, day,    *)
(* hour, minute, second>>].  is_nan and clean_string of team.py are the   *)
(* functions of partners.py, line for line.                                *)
(***************************************************************************)
DateTimeV(y, m, d, H, M, S) ==
    [t |-> "datetime", s |-> <<>>, n |-> 0, l |-> <<y, m, d, H, M, S>>]

ValueError == [t |-> "ValueError", s |-> <<>>, n |-> 0, l |-> <<>>]

\* the month names of %B and of %b, lower-cased as the regular expression of
\* strptime holds them
MONTH_NAMES ==
    <<<<106, 97, 110, 117, 97, 114, 121>>,
      <<102, 101, 98, 114, 117, 97, 114, 121>>,
      <<109, 97, 114, 99, 104>>,
      <<97, 112, 114, 105, 108>>,
      <<109, 97, 121>>,
      <<106, 117, 110, 101>>,
      <<106, 117, 108, 121>>,
      <<97, 117, 103, 117, 115, 116>>,
      <<115, 101, 112, 116, 101, 109, 98, 101, 114>>,
      <<111, 99, 116, 111, 98, 101, 114>>,
      <<110, 111, 118, 101, 109, 98, 101, 114>>,
      <<100, 101, 99, 101, 109, 98, 101, 114>>>>

MONTH_ABBREVIATIONS ==
    <<<<106, 97, 110>>,
      <<102, 101, 98>>,
      <<109, 97, 114>>,
      <<97, 112, 114>>,
      <<109, 97, 121>>,
      <<106, 117, 110>>,
      <<106, 117, 108>>,
      <<97, 117, 103>>,
      <<115, 101, 112>>,
      <<111, 99, 116>>,
      <<110, 111, 118>>,
      <<100, 101, 99>>>>

IsLeap(y) == (y % 4 = 0 /\ y % 100 # 0) \/ y % 400 = 0

DaysInMonth(y, m) ==
    IF m = 2 THEN (IF IsLeap(y) THEN 29 ELSE 28)
    ELSE IF m \in {4, 6, 9, 11} THEN 30 ELSE 31

\* s starts with k decimal digits
StartsWithDigits(s, k) == Len(s) >= k /\ \A i \in 1..k : s[i] \in 48..57

\* the numbers of k digits at the head of s that lie in range
NumberAt(s, k, range) ==
    IF StartsWithDigits(s, k) /\ DigitsValue(SubSeq(s, 1, k)) \in range
    THEN {<<DigitsValue(SubSeq(s, 1, k)), k>>} ELSE {}

\* the names of the list that s starts with, ignoring case
NameAt(s, names) ==
    { <<i, Len(names[i])>> : i \in { j \in 1..Len(names) :
          /\ Len(s) >= Len(names[j])
          /\ lower(SubSeq(s, 1, Len(names[j]))) = names[j] } }

\* what the regular expression of a directive matches at the head of s, as
\* <<value, length>> pairs
DirectiveMatches(directive, s) ==
    CASE directive = "d" ->
            NumberAt(s, 2, 1..31) \cup NumberAt(s, 1, 1..9)
            \cup (IF s # <<>> /\ Head(s) = 32
                  THEN { <<m[1], 2>> : m \in NumberAt(Tail(s), 1, 1..9) } ELSE {})
      [] directive = "m" -> NumberAt(s, 2, 1..12) \cup NumberAt(s, 1, 1..9)
      [] directive = "Y" -> NumberAt(s, 4, 0..9999)
      [] directive = "H" -> NumberAt(s, 2, 0..23) \cup NumberAt(s, 1, 0..9)
      [] directive = "M" -> NumberAt(s, 2, 0..59) \cup NumberAt(s, 1, 0..9)
      [] directive = "S" -> NumberAt(s, 2, 0..61) \cup NumberAt(s, 1, 0..9)
      [] directive = "B" -> NameAt(s, MONTH_NAMES)
      [] directive = "b" -> NameAt(s, MONTH_ABBREVIATIONS)

\* the field of the result a directive sets
DirectiveField(directive) == IF directive \in {"B", "b"} THEN "m" ELSE directive

LiteralCode(token) == CASE token = "/" -> 47 [] token = "-" -> 45 [] token = ":" -> 58

\* the ways the whole of s matches the format: a format is a sequence of
\* directives, literal characters and "ws" (white space, \s+ in the expression)
RECURSIVE Parses(_, _, _)
Parses(s, format, found) ==
    IF format = <<>> THEN (IF s = <<>> THEN {found} ELSE {})
    ELSE
      LET token == Head(format)
      IN  IF token = "ws"
          THEN UNION { Parses(SubSeq(s, k + 1, Len(s)), Tail(format), found) :
                         k \in { j \in 1..Len(s) : \A i \in 1..j : IsSpace(s[i]) } }
          ELSE IF token \in {"/", "-", ":"}
          THEN IF s # <<>> /\ Head(s) = LiteralCode(token)
               THEN Parses(Tail(s), Tail(format), found) ELSE {}
          ELSE UNION { Parses(SubSeq(s, m[2] + 1, Len(s)), Tail(format),
                              [found EXCEPT ![DirectiveField(token)] = m[1]]) :
                         m \in DirectiveMatches(token, s) }

\* datetime.strptime(s, format): the datetime, or ValueError when the text does
\* not match the format or names no day of the calendar
strptime(s, format) ==
    LET defaults == [f \in {"Y", "m", "d", "H", "M", "S"} |->
                        IF f = "Y" THEN 1900 ELSE IF f \in {"m", "d"} THEN 1 ELSE 0]
        parses == Parses(s, format, defaults)
    IN  IF parses = {} THEN ValueError
        ELSE LET p == CHOOSE q \in parses : TRUE
             IN  IF p["Y"] < 1 \/ p["d"] > DaysInMonth(p["Y"], p["m"]) \/ p["S"] > 59
                 THEN ValueError
                 ELSE DateTimeV(p["Y"], p["m"], p["d"], p["H"], p["M"], p["S"])

STANDARD_FORMATS ==
    << <<"Y", "-", "m", "-", "d", "ws", "H", ":", "M", ":", "S">>,
       <<"Y", "-", "m", "-", "d">>,
       <<"d", "/", "m", "/", "Y">>,
       <<"d", "-", "m", "-", "Y">> >>

MONTH_YEAR_FORMATS == << <<"B", "ws", "Y">>, <<"b", "ws", "Y">> >>

\* for fmt in formats: try: return datetime.strptime(text, fmt); except: continue
RECURSIVE try_formats(_, _, _)
try_formats(text, formats, i) ==
    IF i > Len(formats) THEN ValueError
    ELSE LET parsed == strptime(text, formats[i])
         IN  IF parsed.t = "datetime" THEN parsed ELSE try_formats(text, formats, i + 1)

\* str.split(): the words of s between runs of white space
RECURSIVE split(_)
split(s) ==
    LET body == lstrip(s)
        end == IF \E i \in 1..Len(body) : IsSpace(body[i])
               THEN (CHOOSE i \in 1..Len(body) :
                        IsSpace(body[i]) /\ \A j \in 1..(i - 1) : ~IsSpace(body[j])) - 1
               ELSE Len(body)
    IN  IF body = <<>> THEN <<>>
        ELSE <<SubSeq(body, 1, end)>> \o split(SubSeq(body, end + 1, Len(body)))

\* str.replace(old, new): every occurrence of old, from the left
RECURSIVE replace(_, _, _)
replace(s, old, new) ==
    IF Len(s) < Len(old) THEN s
    ELSE IF SubSeq(s, 1, Len(old)) = old
    THEN new \o replace(SubSeq(s, Len(old) + 1, Len(s)), old, new)
    ELSE <<Head(s)>> \o replace(Tail(s), old, new)

\* the items of french_months, in the order of the dict
french_months ==
    <<<<<<106, 97, 110, 118, 105, 101, 114>>, <<74, 97, 110, 117, 97, 114, 121>>>>,
      <<<<106, 97, 110, 118>>, <<74, 97, 110>>>>,
      <<<<102, 233, 118, 114, 105, 101, 114>>, <<70, 101, 98, 114, 117, 97, 114, 121>>>>,
      <<<<102, 233, 118, 114>>, <<70, 101, 98>>>>,
      <<<<102, 101, 118, 114, 105, 101, 114>>, <<70, 101, 98, 114, 117, 97, 114, 121>>>>,
      <<<<102, 101, 118, 114>>, <<70, 101, 98>>>>,
      <<<<109, 97, 114, 115>>, <<77, 97, 114, 99, 104>>>>,
      <<<<97, 118, 114, 105, 108>>, <<65, 112, 114, 105, 108>>>>,
      <<<<97, 118, 114>>, <<65, 112, 114>>>>,
      <<<<109, 97, 105>>, <<77, 97, 121>>>>,
      <<<<106, 117, 105, 110>>, <<74, 117, 110, 101>>>>,
      <<<<106, 117, 105, 108, 108, 101, 116>>, <<74, 117, 108, 121>>>>,
      <<<<106, 117, 105, 108>>, <<74, 117, 108>>>>,
      <<<<97, 111, 251, 116>>, <<65, 117, 103, 117, 115, 116>>>>,
      <<<<97, 111, 117, 116>>, <<65, 117, 103, 117, 115, 116>>>>,
      <<<<97, 111, 251>>, <<65, 117, 103>>>>,
      <<<<115, 101, 112, 116, 101, 109, 98, 114, 101>>, <<83, 101, 112, 116, 101, 109, 98, 101, 114>>>>,
      <<<<115, 101, 112, 116>>, <<83, 101, 112>>>>,
      <<<<111, 99, 116, 111, 98, 114, 101>>, <<79, 99, 116, 111, 98, 101, 114>>>>,
      <<<<111, 99, 116>>, <<79, 99, 116>>>>,
      <<<<110, 111, 118, 101, 109, 98, 114, 101>>, <<78, 111, 118, 101, 109, 98, 101, 114>>>>,
      <<<<110, 111, 118>>, <<78, 111, 118>>>>,
      <<<<100, 233, 99, 101, 109, 98, 114, 101>>, <<68, 101, 99, 101, 109, 98, 101, 114>>>>,
      <<<<100, 233, 99>>, <<68, 101, 99>>>>,
      <<<<100, 101, 99, 101, 109, 98, 114, 101>>, <<68, 101, 99, 101, 109, 98, 101, 114>>>>,
      <<<<100, 101, 99>>, <<68, 101, 99>>>>>>

\* the loop over french_months
RECURSIVE french_loop(_, _)
french_loop(str_lower, i) ==
    IF i > Len(french_months) THEN None
    ELSE IF ~Contains(str_lower, french_months[i][1]) THEN french_loop(str_lower, i + 1)
    ELSE LET str_english == replace(str_lower, french_months[i][1], french_months[i][2])
             parsed == try_formats(str_english, MONTH_YEAR_FORMATS, 1)
         IN  IF parsed.t = "datetime" THEN parsed ELSE french_loop(str_lower, i + 1)

parse_date(value) ==
    IF is_nan(value) THEN None
    ELSE IF value.t = "datetime" THEN value
    ELSE
      LET str_val == strip(str(value))
          standard == try_formats(Head(split(str_val)), STANDARD_FORMATS, 1)
          month_year == try_formats(str_val, MONTH_YEAR_FORMATS, 1)
      IN  IF standard.t = "datetime" THEN standard
          ELSE IF month_year.t = "datetime" THEN month_year
          ELSE french_loop(lower(str_val), 1)

(***************************************************************************)
(* harvest/team.py: detect_gender and PositionType;                        *)
(* harvest/software/models.py: BenchmarkStatus                             *)
(***************************************************************************)
\* the names of FEMALE_NAMES ("alice", "amélie", ... "victoria")
FEMALE_NAMES ==
    { <<97, 108, 105, 99, 101>>,
      <<97, 109, 233, 108, 105, 101>>,
      <<97, 109, 101, 108, 105, 101>>,
      <<97, 110, 110, 97>>,
      <<97, 110, 110, 101>>,
      <<98, 233, 97, 116, 114, 105, 99, 101>>,
      <<98, 101, 97, 116, 114, 105, 99, 101>>,
      <<99, 97, 109, 105, 108, 108, 101>>,
      <<99, 97, 114, 111, 108, 105, 110, 101>>,
      <<99, 97, 116, 104, 101, 114, 105, 110, 101>>,
      <<99, 233, 108, 105, 110, 101>>,
      <<99, 101, 108, 105, 110, 101>>,
      <<99, 104, 97, 114, 108, 111, 116, 116, 101>>,
      <<99, 104, 108, 111, 233>>,
      <<99, 104, 108, 111, 101>>,
      <<99, 108, 97, 105, 114, 101>>,
      <<99, 108, 233, 109, 101, 110, 99, 101>>,
      <<99, 108, 101, 109, 101, 110, 99, 101>>,
      <<100, 97, 114, 105, 97>>,
      <<100, 101, 108, 112, 104, 105, 110, 101>>,
      <<100, 105, 97, 110, 101>>,
      <<101, 108, 105, 115, 101>>,
      <<233, 108, 105, 115, 101>>,
      <<101, 108, 105, 115, 97, 98, 101, 116, 104>>,
      <<233, 109, 105, 108, 105, 101>>,
      <<101, 109, 105, 108, 105, 101>>,
      <<101, 109, 109, 97>>,
      <<102, 108, 111, 114, 101, 110, 99, 101>>,
      <<102, 114, 97, 110, 231, 111, 105, 115, 101>>,
      <<102, 114, 97, 110, 99, 111, 105, 115, 101>>,
      <<103, 97, 98, 114, 105, 101, 108, 108, 101>>,
      <<104, 233, 108, 232, 110, 101>>,
      <<104, 101, 108, 101, 110, 101>>,
      <<105, 115, 97, 98, 101, 108, 108, 101>>,
      <<106, 101, 97, 110, 110, 101>>,
      <<106, 117, 108, 105, 101>>,
      <<106, 117, 108, 105, 101, 116, 116, 101>>,
      <<108, 97, 117, 114, 101>>,
      <<108, 97, 117, 114, 101, 110, 99, 101>>,
      <<108, 233, 97>>,
      <<108, 101, 97>>,
      <<108, 105, 115, 101>>,
      <<108, 111, 117, 105, 115, 101>>,
      <<108, 117, 99, 105, 101>>,
      <<109, 97, 100, 101, 108, 101, 105, 110, 101>>,
      <<109, 97, 110, 111, 110>>,
      <<109, 97, 114, 103, 111, 116>>,
      <<109, 97, 114, 103, 117, 101, 114, 105, 116, 101>>,
      <<109, 97, 114, 105, 101>>,
      <<109, 97, 114, 105, 110, 101>>,
      <<109, 97, 114, 105, 111, 110>>,
      <<109, 97, 114, 116, 105, 110, 101>>,
      <<109, 97, 116, 104, 105, 108, 100, 101>>,
      <<109, 233, 108, 97, 110, 105, 101>>,
      <<109, 101, 108, 97, 110, 105, 101>>,
      <<110, 97, 116, 104, 97, 108, 105, 101>>,
      <<110, 105, 99, 111, 108, 101>>,
      <<112, 97, 117, 108, 105, 110, 101>>,
      <<115, 97, 114, 97, 104>>,
      <<115, 111, 112, 104, 105, 101>>,
      <<115, 116, 233, 112, 104, 97, 110, 105, 101>>,
      <<115, 116, 101, 112, 104, 97, 110, 105, 101>>,
      <<115, 121, 108, 118, 105, 101>>,
      <<118, 97, 108, 233, 114, 105, 101>>,
      <<118, 97, 108, 101, 114, 105, 101>>,
      <<118, 233, 114, 111, 110, 105, 113, 117, 101>>,
      <<118, 101, 114, 111, 110, 105, 113, 117, 101>>,
      <<118, 105, 114, 103, 105, 110, 105, 101>>,
      <<122, 105, 110, 101, 98>>,
      <<102, 97, 116, 105, 109, 97>>,
      <<108, 101, 105, 108, 97>>,
      <<110, 97, 100, 105, 97>>,
      <<115, 111, 102, 105, 97>>,
      <<109, 97, 114, 105, 97>>,
      <<101, 108, 101, 110, 97>>,
      <<111, 108, 103, 97>>,
      <<110, 97, 116, 97, 108, 105, 97>>,
      <<101, 107, 97, 116, 101, 114, 105, 110, 97>>,
      <<97, 108, 101, 120, 97, 110, 100, 114, 97>>,
      <<118, 105, 99, 116, 111, 114, 105, 97>> }

\* the names of MALE_NAMES ("adrien", "alexandre", ... "mikael")
MALE_NAMES ==
    { <<97, 100, 114, 105, 101, 110>>,
      <<97, 108, 101, 120, 97, 110, 100, 114, 101>>,
      <<97, 108, 101, 120, 105, 115>>,
      <<97, 108, 97, 105, 110>>,
      <<97, 110, 116, 111, 105, 110, 101>>,
      <<97, 114, 110, 97, 117, 100>>,
      <<97, 114, 116, 104, 117, 114>>,
      <<98, 101, 110, 106, 97, 109, 105, 110>>,
      <<98, 101, 110, 111, 105, 116>>,
      <<98, 101, 110, 111, 238, 116>>,
      <<98, 101, 114, 110, 97, 114, 100>>,
      <<98, 101, 114, 116, 114, 97, 110, 100>>,
      <<98, 114, 117, 110, 111>>,
      <<99, 104, 97, 114, 108, 101, 115>>,
      <<99, 104, 114, 105, 115, 116, 105, 97, 110>>,
      <<99, 104, 114, 105, 115, 116, 111, 112, 104, 101>>,
      <<99, 108, 97, 117, 100, 101>>,
      <<99, 108, 233, 109, 101, 110, 116>>,
      <<99, 108, 101, 109, 101, 110, 116>>,
      <<100, 97, 109, 105, 101, 110>>,
      <<100, 97, 110, 105, 101, 108>>,
      <<100, 97, 118, 105, 100>>,
      <<100, 101, 110, 105, 115>>,
      <<100, 105, 100, 105, 101, 114>>,
      <<100, 111, 109, 105, 110, 105, 113, 117, 101>>,
      <<233, 100, 111, 117, 97, 114, 100>>,
      <<101, 100, 111, 117, 97, 114, 100>>,
      <<101, 109, 109, 97, 110, 117, 101, 108>>,
      <<101, 114, 105, 99>>,
      <<233, 114, 105, 99>>,
      <<101, 116, 105, 101, 110, 110, 101>>,
      <<233, 116, 105, 101, 110, 110, 101>>,
      <<102, 97, 98, 105, 101, 110>>,
      <<102, 97, 98, 114, 105, 99, 101>>,
      <<102, 108, 111, 114, 105, 97, 110>>,
      <<102, 114, 97, 110, 99, 107>>,
      <<102, 114, 97, 110, 231, 111, 105, 115>>,
      <<102, 114, 97, 110, 99, 111, 105, 115>>,
      <<102, 114, 233, 100, 233, 114, 105, 99>>,
      <<102, 114, 101, 100, 101, 114, 105, 99>>,
      <<103, 97, 98, 114, 105, 101, 108>>,
      <<103, 97, 235, 108>>,
      <<103, 97, 101, 108>>,
      <<103, 101, 111, 114, 103, 101, 115>>,
      <<103, 233, 114, 97, 114, 100>>,
      <<103, 101, 114, 97, 114, 100>>,
      <<103, 117, 105, 108, 108, 97, 117, 109, 101>>,
      <<103, 117, 121>>,
      <<104, 101, 110, 114, 105>>,
      <<104, 101, 114, 118, 233>>,
      <<104, 101, 114, 118, 101>>,
      <<104, 117, 103, 111>>,
      <<106, 97, 99, 113, 117, 101, 115>>,
      <<106, 101, 97, 110>>,
      <<106, 233, 114, 244, 109, 101>>,
      <<106, 101, 114, 111, 109, 101>>,
      <<106, 111, 110, 97, 116, 104, 97, 110>>,
      <<106, 111, 115, 101, 112, 104>>,
      <<106, 117, 108, 105, 101, 110>>,
      <<108, 97, 117, 114, 101, 110, 116>>,
      <<108, 105, 111, 110, 101, 108>>,
      <<108, 111, 117, 105, 115>>,
      <<108, 117, 99>>,
      <<108, 117, 99, 97, 115>>,
      <<108, 117, 100, 111, 118, 105, 99>>,
      <<109, 97, 114, 99>>,
      <<109, 97, 114, 99, 101, 108>>,
      <<109, 97, 114, 116, 105, 110>>,
      <<109, 97, 116, 104, 105, 101, 117>>,
      <<109, 97, 116, 116, 104, 105, 101, 117>>,
      <<109, 97, 117, 114, 105, 99, 101>>,
      <<109, 97, 120, 105, 109, 101>>,
      <<109, 105, 99, 104, 101, 108>>,
      <<110, 105, 99, 111, 108, 97, 115>>,
      <<111, 108, 105, 118, 105, 101, 114>>,
      <<112, 97, 115, 99, 97, 108>>,
      <<112, 97, 116, 114, 105, 99, 107>>,
      <<112, 97, 117, 108>>,
      <<112, 104, 105, 108, 105, 112, 112, 101>>,
      <<112, 105, 101, 114, 114, 101>>,
      <<113, 117, 101, 110, 116, 105, 110>>,
      <<114, 97, 112, 104, 97, 235, 108>>,
      <<114, 97, 112, 104, 97, 101, 108>>,
      <<114, 97, 121, 109, 111, 110, 100>>,
      <<114, 233, 109, 105>>,
      <<114, 101, 109, 105>>,
      <<114, 101, 110, 97, 117, 100>>,
      <<114, 105, 99, 104, 97, 114, 100>>,
      <<114, 111, 98, 101, 114, 116>>,
      <<114, 111, 109, 97, 105, 110>>,
      <<115, 97, 109, 117, 101, 108>>,
      <<115, 233, 98, 97, 115, 116, 105, 101, 110>>,
      <<115, 101, 98, 97, 115, 116, 105, 101, 110>>,
      <<115, 101, 114, 103, 101>>,
      <<115, 105, 109, 111, 110>>,
      <<115, 116, 233, 112, 104, 97, 110, 101>>,
      <<115, 116, 101, 112, 104, 97, 110, 101>>,
      <<115, 121, 108, 118, 97, 105, 110>>,
      <<116, 104, 105, 101, 114, 114, 121>>,
      <<116, 104, 111, 109, 97, 115>>,
      <<118, 105, 110, 99, 101, 110, 116>>,
      <<120, 97, 118, 105, 101, 114>>,
      <<121, 97, 110, 110>>,
      <<121, 97, 110, 110, 105, 99, 107>>,
      <<121, 118, 101, 115>>,
      <<104, 97, 115, 115, 97, 110>>,
      <<109, 111, 104, 97, 109, 101, 100>>,
      <<97, 104, 109, 101, 100>>,
      <<97, 108, 105>>,
      <<111, 109, 97, 114>>,
      <<107, 97, 114, 105, 109>>,
      <<115, 97, 109, 105, 114>>,
      <<109, 97, 104, 97, 109, 97, 116>>,
      <<112, 97, 112, 101>>,
      <<109, 97, 104, 109, 111, 117, 100>>,
      <<99, 104, 114, 105, 115, 116, 111, 115>>,
      <<108, 117, 107, 97, 115>>,
      <<117, 116, 112, 97, 108>>,
      <<104, 117, 110, 103>>,
      <<100, 105, 110, 104>>,
      <<120, 105, 110, 121, 101>>,
      <<97, 109, 97, 117, 114, 121>>,
      <<98, 114, 105, 101, 117, 99>>,
      <<116, 111, 109>>,
      <<109, 105, 107, 97, 235, 108>>,
      <<109, 105, 107, 97, 101, 108>> }

\* s.split("-")[0]: the text in front of the first hyphen
RECURSIVE before_hyphen(_)
before_hyphen(s) ==
    IF s = <<>> \/ Head(s) = 45 THEN <<>>
    ELSE <<Head(s)>> \o before_hyphen(Tail(s))

\* the Gender, or the exception the call ends with: [0] of an empty list is an
\* IndexError, .lower() of a value that is no str an AttributeError
detect_gender(first_name) ==
    IF first_name.t # "str" THEN "AttributeError"
    ELSE
      LET name_lower == strip(lower(first_name.s))
          words == split(before_hyphen(name_lower))
      IN  IF words = <<>> THEN "IndexError"
          ELSE IF words[1] \in FEMALE_NAMES THEN "female"
          ELSE IF words[1] \in MALE_NAMES THEN "male"
          ELSE "unknown"

PositionType_from_string(value) ==
    IF ~truthy(value) THEN "OTHER"
    ELSE
      LET value_lower == strip(lower(value.s))
          has(text) == Contains(value_lower, text)
      IN  IF has(<<112, 104, 100>>) \/ has(<<116, 104, 232, 115, 101>>)  \* "phd", "thèse"
          THEN "PHD"
          ELSE IF has(<<112, 111, 115, 116>>) THEN "POSTDOC"  \* "post"
          ELSE IF \/ has(<<105, 114>>)  \* "ir"
                  \/ has(<<101, 110, 103, 105, 110, 101, 101, 114>>)  \* "engineer"
                  \/ has(<<105, 110, 103, 233, 110, 105, 101, 117, 114>>)  \* "ingénieur"
          THEN "RESEARCH_ENGINEER"
          ELSE IF \/ has(<<112, 101, 114, 109, 97, 110, 101, 110, 116>>)  \* "permanent"
                  \/ has(<<99, 100, 105>>)  \* "cdi"
          THEN "PERMANENT"
          ELSE "OTHER"

\* str.upper() on ASCII and Latin-1 letters
upper(s) ==
    [i \in 1..Len(s) |->
        IF s[i] \in 97..122 \/ s[i] \in 224..246 \/ s[i] \in 248..254
        THEN s[i] - 32 ELSE s[i]]

BenchmarkStatus_from_string(value) ==
    IF ~truthy(value) \/ upper(strip(str(value))) = <<78, 79, 84, 32, 89, 69, 84>>  \* "NOT YET"
    THEN "NOT_YET"
    ELSE
      LET value_lower == lower(str(value))
          cpu == Contains(value_lower, <<99, 112, 117>>)  \* "cpu"
          gpu == Contains(value_lower, <<103, 112, 117>>)  \* "gpu"
      IN  IF cpu /\ gpu THEN "CPU_OR_GPU"
          ELSE IF cpu THEN "CPU_ONLY"
          ELSE IF gpu THEN "GPU_ONLY"
          ELSE "NOT_YET"

(***************************************************************************)
(* harvest/team.py: TeamFetcher and RecruitedCollection                    *)
(***************************************************************************)
\* the columns "WP0" .. "WP7"
WPColumn(wp_num) ==
    <<"WP0", "WP1", "WP2", "WP3", "WP4", "WP5", "WP6", "WP7">>[wp_num + 1]

\* f"WP{num}"
WPLabel(wp_num) == <<87, 80>> \o Digits(wp_num)

\* TeamFetcher._parse_work_packages: the loop over WP0 .. WP7
RECURSIVE parse_work_packages_loop(_, _, _)
parse_work_packages_loop(row, wp_num, wp_involvement) ==
    IF wp_num > 7 THEN wp_involvement
    ELSE LET value == cell(row, WPColumn(wp_num))
         IN  parse_work_packages_loop(row, wp_num + 1,
                 IF ~is_nan(value) /\ value.t \in {"int", "float", "bool"} /\ value.n > 0
                 THEN Append(wp_involvement, WPLabel(wp_num)) ELSE wp_involvement)

parse_work_packages(row) == parse_work_packages_loop(row, 0, <<>>)

parse_gender_from_column(row) ==
    LET woman_val == cell(row, "Woman")
    IN  IF is_nan(woman_val) THEN "male"
        ELSE IF woman_val.t = "int" /\ woman_val.n = 1 THEN "female"
        ELSE IF woman_val.t = "int" /\ woman_val.n = 0 THEN "male"
        ELSE "unknown"

\* re.split(r"[,;\n]+", s): the pieces of s between runs of separators
RECURSIVE split_separators(_, _)
split_separators(s, piece) ==
    IF s = <<>> THEN <<piece>>
    ELSE IF Head(s) \in {44, 59, 10}
    THEN IF Len(s) > 1 /\ s[2] \in {44, 59, 10}
         THEN split_separators(Tail(s), piece)
         ELSE <<piece>> \o split_separators(Tail(s), <<>>)
    ELSE split_separators(Tail(s), Append(piece, Head(s)))

RECURSIVE strip_nonempty(_)
strip_nonempty(pieces) ==
    IF pieces = <<>> THEN <<>>
    ELSE (IF strip(Head(pieces)) # <<>> THEN <<strip(Head(pieces))>> ELSE <<>>)
         \o strip_nonempty(Tail(pieces))

parse_advisors(row) ==
    LET advisor_raw == cell(row, "Advisor")
    IN  IF is_nan(advisor_raw) \/ (advisor_raw.t = "int" /\ advisor_raw.n = 0) THEN <<>>
        ELSE strip_nonempty(split_separators(strip(str(advisor_raw)), <<>>))

\* the funded status of a row
funded_by_exama(row) ==
    LET funded_raw == cell(row, "Funded by Exa-MA")
    IN  IF is_nan(funded_raw) THEN FALSE
        ELSE IF funded_raw.t = "int" THEN funded_raw.n = 1
        ELSE lower(str(funded_raw)) \in {<<49>>, <<121, 101, 115>>, <<116, 114, 117, 101>>,
                                        <<120>>}  \* "1", "yes", "true", "x"

\* TeamFetcher._parse_row: a RecruitedPerson, or None for a row without a first
\* name or without a surname
team_parse_row(row) ==
    LET first_name == clean_string(cell(row, "First name"))
        surname == clean_string(cell(row, "Surname"))
        position_raw == clean_string(cell(row, "Position"))
        wp_from_column == clean_string(cell(row, "WP"))
    IN  IF ~truthy(first_name) \/ ~truthy(surname) THEN None
        ELSE [t |-> "person",
              first_name |-> first_name.s,
              surname |-> surname.s,
              email |-> clean_string(cell(row, "Email")),
              work_packages |-> IF truthy(wp_from_column) THEN <<wp_from_column.s>>
                                ELSE parse_work_packages(row),
              funded_by_exama |-> funded_by_exama(row),
              start_date |-> parse_date(cell(row, "Start date (if the person was not here from start)")),
              end_date |-> parse_date(cell(row, "End date (if the person has left)")),
              other_info |-> clean_string(cell(row, "Other info")),
              position |-> PositionType_from_string(position_raw),
              position_raw |-> position_raw,
              team |-> clean_string(cell(row, "Team")),
              partner |-> clean_string(cell(row, "Partner")),
              institution |-> clean_string(cell(row, "Institution (employer)")),
              advisors |-> parse_advisors(row),
              gender_override |-> parse_gender_from_column(row)]

\* RecruitedPerson.gender; a person built without the override has None there
gender(person) ==
    IF person.gender_override # "None" THEN person.gender_override
    ELSE detect_gender(StrV(person.first_name))

\* RecruitedPerson.full_name
full_name(person) == person.first_name \o <<32>> \o person.surname

\* a < b for datetimes
DateTimeLess(a, b) ==
    \E k \in 1..6 : a.l[k] < b.l[k] /\ \A j \in 1..(k - 1) : a.l[j] = b.l[j]

\* mutant: a person is still active at the end date itself
is_active_at_end(person, current) ==
    IF person.end_date.t = "none" THEN TRUE
    ELSE ~DateTimeLess(person.end_date, current)

\* RecruitedPerson.is_active, current being datetime.now()
is_active(person, current) ==
    IF person.end_date.t = "none" THEN TRUE
    ELSE DateTimeLess(current, person.end_date)

\* mutant: the record seen last replaces the one seen first
RECURSIVE unique_keep_last(_, _, _, _)
unique_keep_last(personnel, i, seen, kept) ==
    IF i > Len(personnel) THEN kept
    ELSE IF full_name(personnel[i]) \notin seen
    THEN unique_keep_last(personnel, i + 1, seen \cup {full_name(personnel[i])},
                          Append(kept, personnel[i]))
    ELSE unique_keep_last(personnel, i + 1, seen,
             [k \in 1..Len(kept) |->
                 IF full_name(kept[k]) = full_name(personnel[i]) THEN personnel[i]
                 ELSE kept[k]])

\* the loop of unique_personnel()
RECURSIVE unique_loop(_, _, _, _)
unique_loop(personnel, i, seen, kept) ==
    IF i > Len(personnel) THEN kept
    ELSE IF full_name(personnel[i]) \notin seen
    THEN unique_loop(personnel, i + 1, seen \cup {full_name(personnel[i])},
                     Append(kept, personnel[i]))
    ELSE unique_loop(personnel, i + 1, seen, kept)

unique_personnel(personnel) == unique_loop(personnel, 1, {}, <<>>)

\* if person: the funded_only and active_only filters, then personnel.append(person)
append_person(personnel, person, funded_only, active_only, current) ==
    IF /\ person.t = "person"
       /\ ~(funded_only /\ ~person.funded_by_exama)
       /\ ~(active_only /\ ~is_active(person, current))
    THEN Append(personnel, person)
    ELSE personnel

\* the loop of TeamFetcher.fetch
RECURSIVE team_fetch_loop(_, _, _, _, _, _)
team_fetch_loop(sheet, i, personnel, funded_only, active_only, current) ==
    IF i > Len(sheet) THEN personnel
    ELSE team_fetch_loop(sheet, i + 1,
                         append_person(personnel, team_parse_row(sheet[i]),
                                       funded_only, active_only, current),
                         funded_only, active_only, current)

(***************************************************************************)
(* The personnel pipeline: TeamFetcher.fetch turns the rows of the sheet   *)
(* into a RecruitedCollection stamped with datetime.now(); the collection *)
(* is then asked for its unique and for its active personnel while the    *)
(* clock advances.                                                         *)
(***************************************************************************)
MaxPersons == 2    \* rows of the personnel sheet
MaxClock == 3      \* instants datetime.now() goes through

\* datetime.now() at the i-th instant: every twelve hours from 2024-03-14 12:00
Clock(i) == DateTimeV(2024, 3, 14 + (i \div 2), 12 * (i % 2), 0, 0)

TeamRow(first_name, surname, email, woman, end_date, funded, wp) ==
    ("First name" :> first_name) @@ ("Surname" :> surname) @@ ("Email" :> email)
    @@ ("Woman" :> woman) @@ ("End date (if the person has left)" :> end_date)
    @@ ("Funded by Exa-MA" :> funded) @@ ("WP" :> wp)
    @@ [c \in {"Position", "Start date (if the person was not here from start)",
               "Other info", "Team", "Partner", "Institution (employer)", "Advisor",
               "WP0", "WP1", "WP2", "WP3", "WP4", "WP5", "WP6", "WP7"} |-> NaN]

p_Ann == <<65, 110, 110>>  \* "Ann"
p_Ann_Lee == <<65, 110, 110, 32, 76, 101, 101>>  \* "Ann Lee"
p_Lee_B == <<76, 101, 101, 32, 66>>  \* "Lee B"
p_B == <<66>>  \* "B"
p_a_x == <<97, 64, 120, 46, 102, 114>>  \* "a@x.fr"
p_b_x == <<98, 64, 120, 46, 102, 114>>  \* "b@x.fr"
p_Marie == <<77, 97, 114, 105, 101>>  \* "Marie"
p_Jean_Pierre == <<74, 101, 97, 110, 45, 80, 105, 101, 114, 114, 101>>  \* "Jean-Pierre"
p_15_03_2024 == <<49, 53, 47, 48, 51, 47, 50, 48, 50, 52>>  \* "15/03/2024"
p_15_mars_2024 == <<49, 53, 32, 109, 97, 114, 115, 32, 50, 48, 50, 52>>  \* "15 mars 2024"

\* full names that are equal though first name and surname differ, and e-mails
IdentityRows ==
    { TeamRow(StrV(n[1]), StrV(n[2]), StrV(email), NaN, NaN, IntV(1), NaN) :
        n \in {<<p_Ann, p_Lee_B>>, <<p_Ann_Lee, p_B>>, <<p_Ann, p_B>>},
        email \in {p_a_x, p_b_x} }

\* rows without a first name or without a surname
BlankRows ==
    { TeamRow(first_name, surname, NaN, NaN, NaN, IntV(1), NaN) :
        first_name \in {NaN, StrV(<<32>>), StrV(p_Ann)},
        surname \in {NaN, StrV(p_B)} }

\* the "Woman" column against the first name
GenderRows ==
    { TeamRow(StrV(first_name), StrV(p_B), NaN, woman, NaN, IntV(1), NaN) :
        first_name \in {p_Marie, p_Jean_Pierre},
        woman \in {NaN, IntV(1), IntV(0), StrV(<<120>>)} }

\* end dates around the instants of the clock, funded or not
EndDateRows ==
    { TeamRow(StrV(p_Ann), StrV(p_B), NaN, NaN, end_date, funded, NaN) :
        end_date \in {NaN, StrV(p_15_03_2024), DateTimeV(2024, 3, 16, 0, 0, 0),
                      StrV(p_15_mars_2024)},
        funded \in {NaN, IntV(1)} }

TeamSheets ==
    BatchesOf(IdentityRows, MaxPersons) \cup BatchesOf(BlankRows, MaxPersons)
    \cup BatchesOf(GenderRows, MaxPersons) \cup BatchesOf(EndDateRows, MaxPersons)

\* no collection fetched yet
NoCollection == [personnel |-> <<>>, source |-> "unknown", fetched_at |-> None]

\* is_active not evaluated yet
NotEvaluated == [at |-> 0, values |-> <<>>]

TeamInit ==
    /\ team_rows \in TeamSheets
    /\ recruited = NoCollection
    /\ recruited_before = NoCollection
    /\ fetch_options = [funded_only |-> FALSE, active_only |-> FALSE]
    /\ unique = <<>>
    /\ active = NotEvaluated
    /\ now = 1
    /\ team_pc = "loaded"
    /\ HalIdle
    /\ PartnersIdle
    /\ CallIdle
    /\ SoftwareIdle
    /\ PagingIdle
    /\ CacheIdle
    /\ ViewIdle
    /\ ReleasesIdle

\* TeamFetcher.fetch(funded_only, active_only) at the instant current
team_fetch(sheet, funded_only, active_only, current) ==
    [personnel |-> team_fetch_loop(sheet, 1, <<>>, funded_only, active_only, current),
     source |-> "google-sheets:sheet_id",
     fetched_at |-> current]

\* fetcher.fetch(funded_only=..., active_only=...)
TeamFetch(funded_only, active_only) ==
    /\ team_pc = "loaded"
    /\ recruited' = team_fetch(team_rows, funded_only, active_only, Clock(now))
    /\ fetch_options' = [funded_only |-> funded_only, active_only |-> active_only]
    /\ team_pc' = "fetched"
    /\ UNCHANGED <<team_rows, recruited_before, unique, active, now>>
    /\ UNCHANGED not_team_vars

\* the same call once more, on the same sheet
TeamFetchAgain ==
    /\ team_pc = "fetched"
    /\ recruited_before' = recruited
    /\ recruited' = team_fetch(team_rows, fetch_options.funded_only,
                               fetch_options.active_only, Clock(now))
    /\ UNCHANGED <<team_rows, fetch_options, unique, active, now, team_pc>>
    /\ UNCHANGED not_team_vars

\* collection.unique_personnel()
UniquePersonnel ==
    /\ team_pc = "fetched"
    /\ unique' = unique_personnel(recruited.personnel)
    /\ team_pc' = "unique"
    /\ UNCHANGED <<team_rows, recruited, recruited_before, fetch_options, active, now>>
    /\ UNCHANGED not_team_vars

\* collection.active_personnel: p.is_active of every person
EvaluateActive ==
    /\ team_pc \in {"fetched", "evaluated"}
    /\ active' = [at |-> now,
                  values |-> [i \in 1..Len(recruited.personnel) |->
                                 is_active(recruited.personnel[i], Clock(now))]]
    /\ team_pc' = "evaluated"
    /\ UNCHANGED <<team_rows, recruited, recruited_before, fetch_options, unique, now>>
    /\ UNCHANGED not_team_vars

\* time passes
Tick ==
    /\ team_pc \in {"fetched", "evaluated"}
    /\ now < MaxClock
    /\ now' = now + 1
    /\ UNCHANGED <<team_rows, recruited, recruited_before, fetch_options, unique, active,
                   team_pc>>
    /\ UNCHANGED not_team_vars

TeamNext ==
    \/ \E funded_only, active_only \in BOOLEAN : TeamFetch(funded_only, active_only)
    \/ TeamFetchAgain
    \/ UniquePersonnel
    \/ EvaluateActive
    \/ Tick

SpecTeam == TeamInit /\ [][TeamNext]_vars

(***************************************************************************)
(* The generators of team.py and the grouping by work package.  Of         *)
(* generate_recruited_section and generate_team_asciidoc the model keeps   *)
(* the personnel list they render and the grouping they ask for, not the   *)
(* AsciiDoc lines.                                                         *)
(***************************************************************************)
v_WP == <<87, 80>>  \* "WP"
v_Unknown == <<85, 110, 107, 110, 111, 119, 110>>  \* "Unknown"
v_WP3 == <<87, 80, 51>>  \* "WP3"
v_WP_2 == <<87, 80, 32, 50>>  \* "WP 2"
v_WP1_WP2 == <<87, 80, 49, 44, 32, 87, 80, 50>>  \* "WP1, WP2"
v_Transverse == <<84, 114, 97, 110, 115, 118, 101, 114, 115, 101>>  \* "Transverse"

\* collection.active_personnel at the instant current
active_personnel(personnel, current) ==
    SelectSeq(personnel, LAMBDA person : is_active(person, current))

\* {p.full_name: p for p in personnel}: a name keeps the place of its first
\* record and takes the value of its last; items is the dict so far
RECURSIVE dict_by_full_name(_, _, _)
dict_by_full_name(personnel, i, items) ==
    IF i > Len(personnel) THEN items
    ELSE dict_by_full_name(personnel, i + 1,
            IF \E j \in 1..Len(items) : items[j][1] = full_name(personnel[i])
            THEN [j \in 1..Len(items) |->
                     IF items[j][1] = full_name(personnel[i])
                     THEN <<items[j][1], personnel[i]>> ELSE items[j]]
            ELSE Append(items, <<full_name(personnel[i]), personnel[i]>>))

\* mutant: the generators call unique_personnel()
render_unique(personnel, active_only, current) ==
    unique_personnel(IF active_only THEN active_personnel(personnel, current)
                     ELSE personnel)

\* the first two statements of both generators: the personnel they render
render_personnel(personnel, active_only, current) ==
    LET items == dict_by_full_name(IF active_only
                                   THEN active_personnel(personnel, current)
                                   ELSE personnel, 1, <<>>)
    IN  [j \in 1..Len(items) |-> items[j][2]]

\* int(text): the number, or ValueError
int(text) ==
    LET body == strip(text)
        signed == body # <<>> /\ Head(body) \in {43, 45}
        digits == IF signed THEN Tail(body) ELSE body
    IN  IF ~IsDigits(digits) THEN ValueError
        ELSE IF signed /\ Head(body) = 45 THEN IntV(-DigitsValue(digits))
        ELSE IntV(DigitsValue(digits))

\* the sort key of by_work_package
wp_sort_key(wp) ==
    IF Len(wp) >= 2 /\ SubSeq(wp, 1, 2) = v_WP
    THEN int(strip(replace(wp, v_WP, <<>>)))
    ELSE IntV(99)

\* result[wp].append(person), result being the dict so far
append_to_group(result, wp, person) ==
    IF \E j \in 1..Len(result) : result[j].wp = wp
    THEN [j \in 1..Len(result) |->
             IF result[j].wp = wp
             THEN [wp |-> wp, people |-> Append(result[j].people, person)]
             ELSE result[j]]
    ELSE Append(result, [wp |-> wp, people |-> <<person>>])

\* the inner loop of by_work_package over the labels of one person
RECURSIVE group_person(_, _, _, _)
group_person(result, wps, k, person) ==
    IF k > Len(wps) THEN result
    ELSE group_person(append_to_group(result, wps[k], person), wps, k + 1, person)

\* the outer loop of by_work_package
RECURSIVE group_by_wp(_, _, _)
group_by_wp(personnel, i, result) ==
    IF i > Len(personnel) THEN result
    ELSE group_by_wp(personnel, i + 1,
            group_person(result,
                         IF personnel[i].work_packages # <<>>
                         THEN personnel[i].work_packages ELSE <<v_Unknown>>,
                         1, personnel[i]))

\* sorted(result.items(), key=...) is stable: an item goes behind the items
\* whose key is less than or equal to its own
RECURSIVE insert_by_key(_, _)
insert_by_key(sorted, item) ==
    IF sorted = <<>> THEN <<item>>
    ELSE IF wp_sort_key(item.wp).n < wp_sort_key(Head(sorted).wp).n
    THEN <<item>> \o sorted
    ELSE <<Head(sorted)>> \o insert_by_key(Tail(sorted), item)

RECURSIVE sort_by_key(_, _, _)
sort_by_key(items, i, sorted) ==
    IF i > Len(items) THEN sorted
    ELSE sort_by_key(items, i + 1, insert_by_key(sorted, items[i]))

\* RecruitedCollection.by_work_package: the dict it returns, or the ValueError
\* the sort key raises
by_work_package(personnel) ==
    LET result == group_by_wp(personnel, 1, <<>>)
    IN  IF \E j \in 1..Len(result) : wp_sort_key(result[j].wp) = ValueError
        THEN ValueError
        ELSE DictV(sort_by_key(result, 1, <<>>))

\* a row of the sheet with its Email, end date, "WP" and WP0 .. WP7 cells
ViewRow(first_name, email, end_date, wp, columns) ==
    [c \in DOMAIN TeamRow(NaN, NaN, NaN, NaN, NaN, NaN, NaN) |->
        IF c \in columns THEN IntV(1)
        ELSE TeamRow(StrV(first_name), StrV(p_B), StrV(email), NaN, end_date, IntV(1),
                     wp)[c]]

\* two records of Ann B that differ, people who left, labels of the "WP"
\* column and marks in the WP0 .. WP7 columns
ViewRows ==
    {ViewRow(p_Ann, p_a_x, NaN, NaN, {"WP1", "WP2"}),
     ViewRow(p_Ann, p_b_x, NaN, StrV(v_WP3), {}),
     ViewRow(p_Ann, p_a_x, DateTimeV(2024, 3, 1, 0, 0, 0), NaN, {}),
     ViewRow(p_Ann, p_b_x, NaN, NaN, {"WP0"}),
     ViewRow(p_Marie, p_a_x, NaN, StrV(v_WP1_WP2), {}),
     ViewRow(p_Marie, p_a_x, NaN, StrV(v_Transverse), {"WP1"}),
     ViewRow(p_Marie, p_b_x, DateTimeV(2024, 3, 1, 0, 0, 0), NaN, {"WP2"}),
     ViewRow(p_Marie, p_b_x, NaN, StrV(v_WP_2), {})}

NotRendered == [active_only |-> FALSE, personnel |-> <<>>]

ViewsInit ==
    /\ team_rows \in BatchesOf(ViewRows, MaxPersons)
    /\ recruited = NoCollection
    /\ recruited_before = NoCollection
    /\ fetch_options = [funded_only |-> FALSE, active_only |-> FALSE]
    /\ unique = <<>>
    /\ active = NotEvaluated
    /\ now = 1
    /\ team_pc = "loaded"
    /\ rendered = NotRendered
    /\ by_wp = None
    /\ view_pc = "ready"
    /\ HalIdle
    /\ PartnersIdle
    /\ CallIdle
    /\ SoftwareIdle
    /\ PagingIdle
    /\ CacheIdle
    /\ ReleasesIdle

\* generate_recruited_section(collection, active_only)
GenerateRecruitedSection(active_only) ==
    /\ team_pc = "fetched"
    /\ view_pc = "ready"
    /\ rendered' = [active_only |-> active_only,
                    personnel |-> render_personnel(recruited.personnel, active_only,
                                                   Clock(now))]
    /\ view_pc' = "section"
    /\ UNCHANGED by_wp
    /\ UNCHANGED team_vars
    /\ UNCHANGED not_view_vars

\* generate_team_asciidoc(collection, group_by=group_by, active_only=active_only)
GenerateTeamAsciidoc(group_by, active_only) ==
    /\ team_pc = "fetched"
    /\ view_pc = "ready"
    /\ rendered' = [active_only |-> active_only,
                    personnel |-> render_personnel(recruited.personnel, active_only,
                                                   Clock(now))]
    /\ by_wp' = IF group_by = "wp"
                THEN by_work_package(render_personnel(recruited.personnel, active_only,
                                                      Clock(now)))
                ELSE None
    /\ view_pc' = "asciidoc"
    /\ UNCHANGED team_vars
    /\ UNCHANGED not_view_vars

\* collection.by_work_package()
ByWorkPackage ==
    /\ team_pc = "fetched"
    /\ view_pc = "ready"
    /\ by_wp' = by_work_package(recruited.personnel)
    /\ view_pc' = "grouped"
    /\ UNCHANGED rendered
    /\ UNCHANGED team_vars
    /\ UNCHANGED not_view_vars

ViewsNext ==
    \/ \E funded_only, active_only \in BOOLEAN : TeamFetch(funded_only, active_only)
    \/ \E active_only \in BOOLEAN : GenerateRecruitedSection(active_only)
    \/ \E group_by \in {"wp", "position", "partner"}, active_only \in BOOLEAN :
          GenerateTeamAsciidoc(group_by, active_only)
    \/ ByWorkPackage

SpecViews == ViewsInit /\ [][ViewsNext]_vars

(***************************************************************************)
(* harvest/software: ExcelFetcher turns the rows of the packaging, the     *)
(* frameworks and the applications sheets into PackagingInfo,              *)
(* SoftwarePackage and Application objects.  An object is a record over    *)
(* the fields of its model.                                                *)
(***************************************************************************)
\* bool(value)
bool(value) ==
    CASE value.t \in {"none", "missing"} -> FALSE
      [] value.t = "str" -> value.s # <<>>
      [] value.t \in {"int", "float", "bool"} -> value.n # 0
      [] OTHER -> TRUE

\* the tokens parse_bool takes for true
TRUE_TOKENS ==
    {<<116, 114, 117, 101>>, <<121, 101, 115>>, <<49>>, <<120>>,
     <<97, 118, 97, 105, 108, 97, 98, 108, 101>>}  \* true yes 1 x available

\* parse_bool(value)
parse_bool(value) ==
    IF is_nan(value) THEN FALSE
    ELSE IF value.t = "bool" THEN value.n = 1
    ELSE strip(lower(str(value))) \in TRUE_TOKENS

\* s.split(sep) for a separator of one character; piece is the text read so far
RECURSIVE split_char(_, _, _)
split_char(s, sep, piece) ==
    IF s = <<>> THEN <<piece>>
    ELSE IF Head(s) = sep THEN <<piece>> \o split_char(Tail(s), sep, <<>>)
    ELSE split_char(Tail(s), sep, Append(piece, Head(s)))

\* the validator split_comma_separated of SoftwarePackage and Application
split_comma_separated(v) ==
    IF v.t \in {"none", "nan"} THEN <<>>
    ELSE IF v.t = "list" THEN v.l
    ELSE strip_nonempty(split_char(replace(str(v), <<10>>, <<44>>), 44, <<>>))

\* datetime.fromisoformat(text), for the date-only form YYYY-MM-DD
fromisoformat(text) == strptime(text, <<"Y", "-", "m", "-", "d">>)

\* a date cell: the datetime itself, the parsed text, or None when it is
\* blank or does not parse
date_field(value, text) ==
    IF is_nan(value) THEN None
    ELSE IF value.t = "datetime" THEN value
    ELSE IF fromisoformat(text).t = "datetime" THEN fromisoformat(text)
    ELSE None

\* the column a field is read from
ColumnOf(map, field) == (CHOOSE p \in map : p[2] = field)[1]

FieldsOf(map) == {p[2] : p \in map}

COLUMN_MAP ==
    {<<"Name", "name">>, <<"Description", "description">>, <<"Partner", "partner">>,
     <<"Consortium", "consortium">>, <<"Emails", "emails">>,
     <<"Compte Github", "github_account">>, <<"Repository", "repository">>,
     <<"License", "license">>, <<"Interfaces", "interfaces">>, <<"Docs", "docs_url">>,
     <<"Channels", "channels">>, <<"Training", "training_available">>,
     <<"Training URL", "training_url">>, <<"Languages", "languages">>,
     <<"Parallelism", "parallelism">>, <<"Data", "data_formats">>,
     <<"Resilience", "resilience">>, <<"Bottlenecks", "bottlenecks">>,
     <<"DevOps", "devops">>, <<"API", "api_info">>, <<"Metadata", "metadata_info">>,
     <<"Benchmarked", "benchmark_status">>, <<"Comments", "comments">>}

PACKAGING_COLUMN_MAP ==
    {<<"Software Name", "software_name">>, <<"Version", "version">>,
     <<"Spack Available", "spack_available">>, <<"Spack Timeline", "spack_timeline">>,
     <<"Spack Info Source", "spack_url">>, <<"Guix-HPC Available", "guix_available">>,
     <<"Guix-HPC Timeline", "guix_timeline">>, <<"Guix-HPC Info Source", "guix_url">>,
     <<"PETSc packaging available", "petsc_available">>,
     <<"PETSc-Packaging Timeline", "petsc_timeline">>,
     <<"PETSC package info source", "petsc_url">>,
     <<"Docker Available", "docker_available">>, <<"Docker Timeline", "docker_timeline">>,
     <<"Docker Info Source", "docker_url">>,
     <<"Apptainer Available", "apptainer_available">>,
     <<"Apptainer Timeline", "apptainer_timeline">>,
     <<"Apptainer Info Source", "apptainer_url">>, <<"Notes", "notes">>,
     <<"Last Updated", "last_updated">>}

APPLICATION_COLUMN_MAP ==
    {<<"id", "id">>, <<"name", "name">>, <<"Partners", "partners">>, <<"PC", "pc">>,
     <<"Responsible (Permanent)", "responsible">>, <<"WP7 Engineer", "wp7_engineer">>,
     <<"work_package", "work_packages">>, <<"application_type", "application_type">>,
     <<"purpose", "purpose">>, <<"Method-Algorithm WP1", "methods_wp1">>,
     <<"Method-Algorithm WP2", "methods_wp2">>, <<"Method-Algorithm WP3", "methods_wp3">>,
     <<"Method-Algorithm WP4", "methods_wp4">>, <<"Method-Algorithm WP5", "methods_wp5">>,
     <<"Method-Algorithm WP6", "methods_wp6">>, <<"WP7", "wp7_topics">>,
     <<"inputs", "inputs">>, <<"outputs", "outputs">>, <<"metrics", "metrics">>,
     <<"status", "status">>, <<"Benchmark scope", "benchmark_scope">>,
     <<"Framework", "frameworks">>, <<"parallel_framework", "parallel_frameworks">>,
     <<"spec_due", "spec_due">>, <<"proto_due", "proto_due">>, <<"repo_url", "repo_url">>,
     <<"tex_url", "tex_url">>, <<"notes", "notes">>}

\* the fields of SoftwarePackage and of Application the validator splits
SOFTWARE_LIST_FIELDS ==
    {"emails", "languages", "parallelism", "data_formats", "devops", "channels",
     "bottlenecks"}

APPLICATION_LIST_FIELDS ==
    {"partners", "pc", "responsible", "work_packages", "methods_wp1", "methods_wp2",
     "methods_wp3", "methods_wp4", "methods_wp5", "methods_wp6", "wp7_topics", "inputs",
     "outputs", "metrics", "benchmark_scope", "frameworks", "parallel_frameworks"}

\* the column f"{wp_key} Benchmarked"
WPBenchmarkedColumn(wp_num) ==
    <<"WP1 Benchmarked", "WP2 Benchmarked", "WP3 Benchmarked", "WP4 Benchmarked",
      "WP5 Benchmarked", "WP6 Benchmarked", "WP7 Benchmarked">>[wp_num]

\* WorkPackageInfo.from_excel_row(row, wp_num): <<>> stands for None
WorkPackageInfo_from_excel_row(row, wp_num) ==
    LET topics_raw == cell(row, WPColumn(wp_num))
        benchmarked_raw == get(row, WPBenchmarkedColumn(wp_num), None)
        topics == strip_nonempty(split_char(str(topics_raw), 44, <<>>))
    IN  IF ~bool(topics_raw) \/ topics_raw.t = "nan" THEN <<>>
        ELSE IF topics = <<>> THEN <<>>
        ELSE <<[wp_number |-> wp_num, topics |-> topics,
                benchmarked |-> bool(benchmarked_raw)]>>

\* for wp_num in range(1, 8): ... work_packages.append(wp_info)
RECURSIVE software_work_packages(_, _)
software_work_packages(row, wp_num) ==
    IF wp_num > 7 THEN <<>>
    ELSE WorkPackageInfo_from_excel_row(row, wp_num)
         \o software_work_packages(row, wp_num + 1)

\* ExcelFetcher._parse_packaging_row: a PackagingInfo, or None
parse_packaging_row(row) ==
    LET software_name == clean_string(cell(row, "Software Name"))
    IN  IF ~truthy(software_name) THEN None
        ELSE [model_field \in FieldsOf(PACKAGING_COLUMN_MAP) |->
                LET value == cell(row, ColumnOf(PACKAGING_COLUMN_MAP, model_field))
                IN  IF model_field = "software_name" THEN software_name
                    ELSE IF model_field \in {"spack_available", "guix_available",
                                             "petsc_available", "docker_available",
                                             "apptainer_available"}
                    THEN parse_bool(value)
                    ELSE IF model_field = "last_updated"
                    THEN date_field(value, str(value))
                    ELSE clean_string(value)]

\* ExcelFetcher.fetch_packaging: the dict of PackagingInfo by software name
RECURSIVE fetch_packaging_loop(_, _, _)
fetch_packaging_loop(sheet, i, packaging) ==
    IF i > Len(sheet) THEN packaging
    ELSE LET info == parse_packaging_row(sheet[i])
         IN  fetch_packaging_loop(sheet, i + 1,
                 IF info = None THEN packaging
                 ELSE dict_set(packaging, info.software_name.s, info))

fetch_packaging(sheet) == fetch_packaging_loop(sheet, 1, <<>>)

\* ExcelFetcher._parse_software_row: the SoftwarePackage of a row
parse_software_row(row, packaging) ==
    LET kwargs ==
            [model_field \in FieldsOf(COLUMN_MAP) |->
                LET value == cell(row, ColumnOf(COLUMN_MAP, model_field))
                IN  IF model_field = "benchmark_status"
                    THEN BenchmarkStatus_from_string(clean_string(value))
                    ELSE IF model_field = "training_available" THEN parse_bool(value)
                    ELSE IF model_field \in SOFTWARE_LIST_FIELDS
                    THEN split_comma_separated(value)
                    ELSE clean_string(value)]
        name == kwargs.name
    IN  kwargs @@ [work_packages |-> software_work_packages(row, 1),
                   packaging |-> IF truthy(name) /\ dict_has(packaging, name.s)
                                 THEN dict_get(packaging, name.s) ELSE None]

\* the loop of ExcelFetcher.fetch over the rows of the frameworks sheet
RECURSIVE software_fetch_loop(_, _, _, _)
software_fetch_loop(sheet, i, packaging, list) ==
    IF i > Len(sheet) THEN list
    ELSE LET name == clean_string(cell(sheet[i], "Name"))
         IN  software_fetch_loop(sheet, i + 1, packaging,
                 IF ~truthy(name) THEN list
                 ELSE Append(list, parse_software_row(sheet[i], packaging)))

\* mutant: the DevOps tags are not looked at
is_eligible_without_devops(package) ==
    /\ package.benchmark_status \notin {"None", "NOT_YET"}
    /\ bool(package.license)

\* SoftwarePackage.is_eligible_for_page; a benchmark_status left at its
\* default None is written "None"
is_eligible_for_page(package) ==
    /\ package.benchmark_status \notin {"None", "NOT_YET"}
    /\ bool(package.license)
    /\ package.devops # <<>>

\* SoftwareCollection.eligible_packages
eligible_packages(collection) == SelectSeq(collection.packages, is_eligible_for_page)

\* ApplicationStatus.from_string
ApplicationStatus_from_string(value) ==
    IF ~truthy(value) THEN "PLANNED"
    ELSE
      LET value_lower == replace(strip(lower(str(value))), <<95>>, <<45>>)
      IN  CASE value_lower = <<112, 108, 97, 110, 110, 101, 100>> -> "PLANNED"
            [] value_lower = <<105, 110, 45, 100, 101, 118, 101, 108, 111, 112, 109, 101, 110, 116>> -> "IN_DEVELOPMENT"
            [] value_lower = <<98, 101, 110, 99, 104, 109, 97, 114, 107, 45, 114, 101, 97, 100, 121>> -> "BENCHMARK_READY"
            [] value_lower = <<99, 111, 109, 112, 108, 101, 116, 101, 100>> -> "COMPLETED"
            [] OTHER -> "PLANNED"

\* ApplicationType.from_string
ApplicationType_from_string(value) ==
    IF ~truthy(value) THEN "MINI_APP"
    ELSE
      LET value_lower == replace(strip(lower(str(value))), <<95>>, <<45>>)
      IN  CASE value_lower = <<109, 105, 110, 105, 45, 97, 112, 112>> -> "MINI_APP"
            [] value_lower = <<101, 120, 116, 101, 110, 100, 101, 100, 45, 109, 105, 110, 105, 45, 97, 112, 112>> -> "EXTENDED_MINI_APP"
            [] value_lower = <<112, 114, 111, 120, 121, 45, 97, 112, 112>> -> "PROXY_APP"
            [] value_lower = <<102, 117, 108, 108, 45, 97, 112, 112, 108, 105, 99, 97, 116, 105, 111, 110>> -> "FULL_APPLICATION"
            [] value_lower = <<100, 101, 109, 111, 110, 115, 116, 114, 97, 116, 111, 114>> -> "DEMONSTRATOR"
            [] OTHER ->
                IF Contains(value_lower, <<101, 120, 116, 101, 110, 100, 101, 100>>) THEN "EXTENDED_MINI_APP"
                ELSE IF Contains(value_lower, <<112, 114, 111, 120, 121>>) THEN "PROXY_APP"
                ELSE IF Contains(value_lower, <<102, 117, 108, 108>>) THEN "FULL_APPLICATION"
                ELSE IF Contains(value_lower, <<100, 101, 109, 111>>) THEN "DEMONSTRATOR"
                ELSE "MINI_APP"

\* the validation error of a model
ValidationError == [t |-> "ValidationError", s |-> <<>>, n |-> 0, l |-> <<>>]

\* ExcelFetcher._parse_application_row: the Application of a row, or the
\* ValidationError Application(**kwargs) raises when id or name is not a str
parse_application_row(row) ==
    LET kwargs ==
            [model_field \in FieldsOf(APPLICATION_COLUMN_MAP) |->
                LET value == cell(row, ColumnOf(APPLICATION_COLUMN_MAP, model_field))
                IN  IF model_field = "application_type"
                    THEN ApplicationType_from_string(clean_string(value))
                    ELSE IF model_field = "status"
                    THEN ApplicationStatus_from_string(clean_string(value))
                    ELSE IF model_field \in {"spec_due", "proto_due"}
                    THEN date_field(value, IF split(str(value)) = <<>> THEN <<>>
                                           ELSE split(str(value))[1])
                    ELSE IF model_field \in APPLICATION_LIST_FIELDS
                    THEN split_comma_separated(value)
                    ELSE clean_string(value)]
    IN  IF kwargs.id.t # "str" \/ kwargs.name.t # "str" THEN ValidationError
        ELSE kwargs

\* the loop of fetch_applications, leaving at the first row without id
RECURSIVE applications_fetch_loop_break(_, _, _)
applications_fetch_loop_break(sheet, i, list) ==
    IF i > Len(sheet) THEN list
    ELSE LET app_id == clean_string(cell(sheet[i], "id"))
             app == parse_application_row(sheet[i])
         IN  IF ~truthy(app_id) THEN list
             ELSE applications_fetch_loop_break(sheet, i + 1,
                      IF app = ValidationError THEN list ELSE Append(list, app))

\* the loop of ExcelFetcher.fetch_applications over the rows of the sheet:
\* a row without id is passed over, and so is a row whose Application raises
RECURSIVE applications_fetch_loop(_, _, _)
applications_fetch_loop(sheet, i, list) ==
    IF i > Len(sheet) THEN list
    ELSE LET app_id == clean_string(cell(sheet[i], "id"))
             app == parse_application_row(sheet[i])
         IN  applications_fetch_loop(sheet, i + 1,
                 IF ~truthy(app_id) THEN list
                 ELSE IF app = ValidationError THEN list
                 ELSE Append(list, app))

(***************************************************************************)
(* Sheets with rows that lack their identity.  The four fetchers read     *)
(* their own sheet; here the i-th row of every sheet is built from the    *)
(* same pair of cells: the first is the partner name, the first name, the *)
(* software name and the application id, the second the surname and the   *)
(* application name.                                                       *)
(***************************************************************************)
MaxIdentityRows == 2   \* rows of each of the sheets

IdentityCells ==
    {NaN, StrV(<<32>>), StrV(r_Acme), StrV(r_EDF)} \X {NaN, StrV(p_B)}

PackagingRow(software_name) ==
    [c \in {p[1] : p \in PACKAGING_COLUMN_MAP} |->
        IF c = "Software Name" THEN software_name
        ELSE IF c = "Spack Available" THEN StrV(<<120>>)
        ELSE NaN]

SoftwareRow(name, description) ==
    [c \in {p[1] : p \in COLUMN_MAP}
           \cup {WPColumn(n) : n \in 1..7} \cup {WPBenchmarkedColumn(n) : n \in 1..7} |->
        IF c = "Name" THEN name
        ELSE IF c = "Description" THEN description
        ELSE IF c = "Languages" THEN StrV(s_C)
        ELSE IF c = "WP1" THEN StrV(r_hpc)
        ELSE NaN]

ApplicationRow(id, name) ==
    [c \in {p[1] : p \in APPLICATION_COLUMN_MAP} |->
        IF c = "id" THEN id ELSE IF c = "name" THEN name ELSE NaN]

\* no collection fetched yet
NoPackages == [packages |-> <<>>, source_file |-> "unknown", fetched_at |-> None]

NoApplications == [applications |-> <<>>, source_file |-> "unknown", fetched_at |-> None]

RowsInit ==
    /\ \E cells \in BatchesOf(IdentityCells, MaxIdentityRows) :
          /\ rows = [i \in 1..Len(cells) |->
                        Row(cells[i][1], NaN, NaN, NaN, NaN, NaN, NaN, NaN, NaN, NaN)]
          /\ team_rows = [i \in 1..Len(cells) |->
                        TeamRow(cells[i][1], cells[i][2], NaN, NaN, NaN, NaN, NaN)]
          /\ packaging_rows = [i \in 1..Len(cells) |-> PackagingRow(cells[i][1])]
          /\ software_rows = [i \in 1..Len(cells) |-> SoftwareRow(cells[i][1], cells[i][2])]
          /\ application_rows = [i \in 1..Len(cells) |->
                                    ApplicationRow(cells[i][1], cells[i][2])]
    /\ partners = <<>>
    /\ deduplicated = <<>>
    /\ source = <<>>
    /\ partners_pc = "loaded"
    /\ recruited = NoCollection
    /\ recruited_before = NoCollection
    /\ fetch_options = [funded_only |-> FALSE, active_only |-> FALSE]
    /\ unique = <<>>
    /\ active = NotEvaluated
    /\ now = 1
    /\ team_pc = "loaded"
    /\ packages = NoPackages
    /\ eligible = <<>>
    /\ software_pc = "loaded"
    /\ applications = NoApplications
    /\ applications_pc = "loaded"
    /\ HalIdle
    /\ CallIdle
    /\ PagingIdle
    /\ CacheIdle
    /\ ViewIdle
    /\ ReleasesIdle

\* ExcelFetcher.fetch()
SoftwareFetch ==
    /\ software_pc = "loaded"
    /\ packages' = [packages |-> software_fetch_loop(software_rows, 1,
                                     fetch_packaging(packaging_rows), <<>>),
                    source_file |-> "software.xlsx",
                    fetched_at |-> Clock(now)]
    /\ software_pc' = "fetched"
    /\ UNCHANGED <<packaging_rows, software_rows, application_rows, eligible, applications,
                   applications_pc>>
    /\ UNCHANGED not_software_vars

\* ExcelFetcher.fetch_applications()
ApplicationsFetch ==
    /\ applications_pc = "loaded"
    /\ applications' = [applications |-> applications_fetch_loop(application_rows, 1, <<>>),
                        source_file |-> "software.xlsx",
                        fetched_at |-> Clock(now)]
    /\ applications_pc' = "fetched"
    /\ UNCHANGED <<packaging_rows, software_rows, application_rows, packages, eligible,
                   software_pc>>
    /\ UNCHANGED not_software_vars

RowsNext ==
    \/ \E dedup \in BOOLEAN : Fetch(dedup)
    \/ \E funded_only, active_only \in BOOLEAN : TeamFetch(funded_only, active_only)
    \/ SoftwareFetch
    \/ ApplicationsFetch

SpecRows == RowsInit /\ [][RowsNext]_vars

(***************************************************************************)
(* Page eligibility: the frameworks sheet is fetched and the collection    *)
(* is asked for its eligible packages.  The rows differ in their License,  *)
(* DevOps and Benchmarked cells; row i is named PackageName(i).            *)
(***************************************************************************)
MaxPackages == 2   \* rows of the frameworks sheet

e_MIT == <<77, 73, 84>>  \* "MIT"
e_CI_tests == <<67, 111, 110, 116, 105, 110, 117, 111, 117, 115, 32, 73, 110, 116, 101, 103, 114, 97, 116, 105, 111, 110, 44, 32, 85, 110, 105, 116, 32, 116, 101, 115, 116, 115>>  \* "Continuous Integration, Unit tests"
e_comma == <<32, 44, 32>>  \* " , "
e_NOT_YET == <<78, 79, 84, 32, 89, 69, 84>>  \* "NOT YET"
e_not_yet_ == <<32, 110, 111, 116, 32, 121, 101, 116, 32>>  \* " not yet "
e_na == <<110, 47, 97>>  \* "n/a"
e_CPU == <<67, 80, 85>>  \* "CPU"
e_gpu_only == <<103, 112, 117, 32, 111, 110, 108, 121>>  \* "gpu only"
e_CPU_and_GPU == <<67, 80, 85, 32, 97, 110, 100, 32, 71, 80, 85>>  \* "CPU and GPU"

PackageName(i) == <<80>> \o Digits(i)  \* "P1", "P2", ...

\* the License, DevOps and Benchmarked cells of a row
EligibilityCells ==
    ({NaN, StrV(e_MIT)} \X {NaN, StrV(e_CI_tests)}
        \X {NaN, StrV(e_NOT_YET), StrV(e_na), StrV(e_CPU), StrV(e_CPU_and_GPU)})
    \cup {<<StrV(<<32>>), StrV(e_CI_tests), StrV(e_CPU)>>,
          <<StrV(e_MIT), StrV(e_comma), StrV(e_gpu_only)>>,
          <<StrV(e_MIT), StrV(e_CI_tests), StrV(e_not_yet_)>>}

EligibilityRow(i, cells) ==
    [c \in DOMAIN SoftwareRow(NaN, NaN) |->
        IF c = "Name" THEN StrV(PackageName(i))
        ELSE IF c = "License" THEN cells[1]
        ELSE IF c = "DevOps" THEN cells[2]
        ELSE IF c = "Benchmarked" THEN cells[3]
        ELSE NaN]

EligibleInit ==
    /\ \E cells \in BatchesOf(EligibilityCells, MaxPackages) :
          software_rows = [i \in 1..Len(cells) |-> EligibilityRow(i, cells[i])]
    /\ packaging_rows = <<>>
    /\ application_rows = <<>>
    /\ packages = NoPackages
    /\ eligible = <<>>
    /\ applications = NoApplications
    /\ software_pc = "loaded"
    /\ applications_pc = "idle"
    /\ HalIdle
    /\ PartnersIdle
    /\ CallIdle
    /\ TeamIdle
    /\ PagingIdle
    /\ CacheIdle
    /\ ViewIdle
    /\ ReleasesIdle

\* collection.eligible_packages
EligiblePackages ==
    /\ software_pc = "fetched"
    /\ eligible' = eligible_packages(packages)
    /\ software_pc' = "eligible"
    /\ UNCHANGED <<packaging_rows, software_rows, application_rows, packages, applications,
                   applications_pc>>
    /\ UNCHANGED not_software_vars

EligibleNext ==
    \/ SoftwareFetch
    \/ EligiblePackages

SpecEligible == EligibleInit /\ [][EligibleNext]_vars

(***************************************************************************)
(* Calls of the classifiers and field parsers.  A call applies one         *)
(* function to every element of arg.                                       *)
(***************************************************************************)
MaxYears == 2      \* calendar years the dates handed to parse_date are drawn from

\* the French month names as the sheets write them
FRENCH_MONTH_NAMES ==
    <<<<106, 97, 110, 118, 105, 101, 114>>,
      <<102, 233, 118, 114, 105, 101, 114>>,
      <<109, 97, 114, 115>>,
      <<97, 118, 114, 105, 108>>,
      <<109, 97, 105>>,
      <<106, 117, 105, 110>>,
      <<106, 117, 105, 108, 108, 101, 116>>,
      <<97, 111, 251, 116>>,
      <<115, 101, 112, 116, 101, 109, 98, 114, 101>>,
      <<111, 99, 116, 111, 98, 114, 101>>,
      <<110, 111, 118, 101, 109, 98, 114, 101>>,
      <<100, 233, 99, 101, 109, 98, 114, 101>>>>

TwoDigits(n) == IF n < 10 THEN <<48>> \o Digits(n) ELSE Digits(n)

\* "15 mars 2024"
FrenchDayMonthYear(d, m, y) ==
    Digits(d) \o <<32>> \o FRENCH_MONTH_NAMES[m] \o <<32>> \o Digits(y)

\* "15/03/2024"
NumericDayMonthYear(d, m, y) ==
    TwoDigits(d) \o <<47>> \o TwoDigits(m) \o <<47>> \o Digits(y)

\* a calendar date written both ways
DateArguments ==
    { <<StrV(FrenchDayMonthYear(d, m, y)), StrV(NumericDayMonthYear(d, m, y))>> :
        <<d, m, y>> \in { c \in (1..31) \X (1..12) \X (2023..(2022 + MaxYears)) :
                             c[1] <= DaysInMonth(c[3], c[2]) } }

\* labels, names and malformed texts, and None
ClassifierArguments ==
    { <<None>> } \cup { <<StrV(text)>> : text \in {
        <<>>,  \* ""
        <<32>>,  \* " "
        <<45>>,  \* "-"
        <<45, 80, 105, 101, 114, 114, 101>>,  \* "-Pierre"
        <<32, 45, 32>>,  \* " - "
        <<77, 97, 114, 105, 101>>,  \* "Marie"
        <<74, 101, 97, 110, 45, 80, 105, 101, 114, 114, 101>>,  \* "Jean-Pierre"
        <<65, 110, 110, 101, 32, 77, 97, 114, 105, 101>>,  \* "Anne Marie"
        <<88, 105, 110, 121, 101>>,  \* "Xinye"
        <<80, 104, 68, 32, 115, 116, 117, 100, 101, 110, 116>>,  \* "PhD student"
        <<80, 111, 115, 116, 45, 68, 111, 99>>,  \* "Post-Doc"
        <<73, 110, 103, 233, 110, 105, 101, 117, 114>>,  \* "Ingénieur"
        <<67, 68, 73>>,  \* "CDI"
        <<69, 110, 116, 114, 101, 112, 114, 105, 115, 101, 32, 45, 32, 83, 77, 69>>,  \* "Entreprise - SME"
        <<80, 111, 115, 105, 116, 105, 118, 101, 32, 82, 101, 115, 112, 111, 110, 115, 101>>,  \* "Positive Response"
        <<67, 80, 85, 32, 97, 110, 100, 32, 71, 80, 85>>,  \* "CPU and GPU"
        <<103, 112, 117>>,  \* "gpu"
        <<32, 110, 111, 116, 32, 121, 101, 116, 32>>,  \* " not yet "
        <<65, 82, 84>>,  \* "ART"
        <<110, 111, 116, 32, 97, 32, 100, 97, 116, 101>>,  \* "not a date"
        <<109, 97, 114, 115, 32, 50, 48, 50, 52>>  \* "mars 2024"
        } }

\* labels of the "Type of External Partners" column: a type word and a size
\* word, each with the member the word stands for
TYPE_WORDS ==
    <<<<<<>>, "OTHER">>,  \* ""
      <<<<69, 110, 116, 114, 101, 112, 114, 105, 115, 101>>, "ENTREPRISE">>,  \* "Entreprise"
      <<<<69, 80, 73, 67>>, "EPIC">>,  \* "EPIC"
      <<<<65, 99, 97, 100, 101, 109, 105, 99>>, "ACADEMIC">>,  \* "Academic"
      <<<<80, 117, 98, 108, 105, 99, 32, 82, 101, 115, 101, 97, 114, 99, 104>>, "PUBLIC_RESEARCH">>,  \* "Public Research"
      <<<<82, 101, 115, 101, 97, 114, 99, 104, 32, 73, 110, 102, 114, 97, 115, 116, 114, 117, 99, 116, 117, 114, 101>>, "LARGE_SCALE_RESEARCH_INFRA">>>>  \* "Research Infrastructure"

SIZE_WORDS ==
    <<<<<<>>, "UNKNOWN">>,  \* ""
      <<<<76, 97, 114, 103, 101, 32, 103, 114, 111, 117, 112>>, "LARGE">>,  \* "Large group"
      <<<<83, 77, 69>>, "SME">>,  \* "SME"
      <<<<77, 105, 100, 32, 99, 97, 112>>, "MIDCAP">>,  \* "Mid cap"
      <<<<109, 105, 100, 99, 97, 112>>, "MIDCAP">>,  \* "midcap"
      <<<<83, 77, 69, 32, 111, 102, 32, 97, 32, 108, 97, 114, 103, 101, 32, 103, 114, 111, 117, 112>>, "LARGE">>>>  \* "SME of a large group"

\* f"{type} - {size}"
PartnerLabel(tw, sw) == StrV(TYPE_WORDS[tw][1] \o <<32, 45, 32>> \o SIZE_WORDS[sw][1])

PartnerLabelArguments ==
    { <<PartnerLabel(tw, sw)>> : tw \in 1..Len(TYPE_WORDS), sw \in 1..Len(SIZE_WORDS) }

\* cells of a boolean column: booleans, whole and fractional numbers, blanks
\* and texts
BoolCells ==
    { None, NaN, BoolV(TRUE), BoolV(FALSE), IntV(0), IntV(1), IntV(2), IntV(10),
      FloatV(0), FloatV(5), FloatV(10), FloatV(11), FloatV(20) } \cup
    \* 'true', 'TRUE', ' Yes ', 'yes', '1', ' 1 ', 'x', 'X', 'Available', 'available\n',
    \* '1.0', '0', 'no', 'false', '', '  ', 'y', 'on', '11', 'true.'
    { StrV(text) : text \in {
        <<116, 114, 117, 101>>,
        <<84, 82, 85, 69>>,
        <<32, 89, 101, 115, 32>>,
        <<121, 101, 115>>,
        <<49>>,
        <<32, 49, 32>>,
        <<120>>,
        <<88>>,
        <<65, 118, 97, 105, 108, 97, 98, 108, 101>>,
        <<97, 118, 97, 105, 108, 97, 98, 108, 101, 10>>,
        <<49, 46, 48>>,
        <<48>>,
        <<110, 111>>,
        <<102, 97, 108, 115, 101>>,
        <<>>,
        <<32, 32>>,
        <<121>>,
        <<111, 110>>,
        <<49, 49>>,
        <<116, 114, 117, 101, 46>>} }

CallsInit ==
    /\ arg \in DateArguments \cup ClassifierArguments \cup PartnerLabelArguments
    /\ ret = <<>>
    /\ call_pc = "ready"
    /\ HalIdle
    /\ PartnersIdle
    /\ TeamIdle
    /\ SoftwareIdle
    /\ PagingIdle
    /\ CacheIdle
    /\ ViewIdle
    /\ ReleasesIdle

\* parse_date(value)
ParseDate ==
    /\ call_pc = "ready"
    /\ ret' = [i \in 1..Len(arg) |-> parse_date(arg[i])]
    /\ call_pc' = "parse_date"
    /\ UNCHANGED arg
    /\ UNCHANGED not_call_vars

\* detect_gender(first_name)
DetectGender ==
    /\ call_pc = "ready"
    /\ ret' = [i \in 1..Len(arg) |-> detect_gender(arg[i])]
    /\ call_pc' = "detect_gender"
    /\ UNCHANGED arg
    /\ UNCHANGED not_call_vars

\* PartnerType.from_string(value)
PartnerTypeFromString ==
    /\ call_pc = "ready"
    /\ ret' = [i \in 1..Len(arg) |-> PartnerType_from_string(arg[i])]
    /\ call_pc' = "PartnerType.from_string"
    /\ UNCHANGED arg
    /\ UNCHANGED not_call_vars

\* PartnerStatus.from_string(value)
PartnerStatusFromString ==
    /\ call_pc = "ready"
    /\ ret' = [i \in 1..Len(arg) |-> PartnerStatus_from_string(arg[i])]
    /\ call_pc' = "PartnerStatus.from_string"
    /\ UNCHANGED arg
    /\ UNCHANGED not_call_vars

\* PositionType.from_string(value)
PositionTypeFromString ==
    /\ call_pc = "ready"
    /\ ret' = [i \in 1..Len(arg) |-> PositionType_from_string(arg[i])]
    /\ call_pc' = "PositionType.from_string"
    /\ UNCHANGED arg
    /\ UNCHANGED not_call_vars

\* BenchmarkStatus.from_string(value)
BenchmarkStatusFromString ==
    /\ call_pc = "ready"
    /\ ret' = [i \in 1..Len(arg) |-> BenchmarkStatus_from_string(arg[i])]
    /\ call_pc' = "BenchmarkStatus.from_string"
    /\ UNCHANGED arg
    /\ UNCHANGED not_call_vars

\* infer_publication_type(doc_type_code), the other fields at their defaults
InferPublicationType ==
    /\ call_pc = "ready"
    /\ ret' = [i \in 1..Len(arg) |->
                  infer_publication_type(IF truthy(arg[i]) THEN arg[i].s ELSE <<>>,
                                         <<>>, <<>>, <<>>)]
    /\ call_pc' = "infer_publication_type"
    /\ UNCHANGED arg
    /\ UNCHANGED not_call_vars

\* parse_bool(value) of one cell
ParseBool ==
    /\ call_pc = "ready"
    /\ \E value \in BoolCells :
        /\ arg' = <<value>>
        /\ ret' = <<parse_bool(value)>>
    /\ call_pc' = "parse_bool"
    /\ UNCHANGED not_call_vars

CallsNext ==
    \/ ParseBool
    \/ ParseDate
    \/ DetectGender
    \/ PartnerTypeFromString
    \/ PartnerStatusFromString
    \/ PositionTypeFromString
    \/ BenchmarkStatusFromString
    \/ InferPublicationType

SpecCalls == CallsInit /\ [][CallsNext]_vars

(***************************************************************************)
(* harvest/software/cache.py: SoftwareCache keeps one JSON file per source *)
(* in its directory; CachedFetcher puts it in front of a data source.  A   *)
(* file is the dict CacheEntry.to_dict() wrote, Missing when there is no   *)
(* file.  The clock runs in seconds from CacheEpoch.                       *)
(***************************************************************************)
MaxCacheTime == 3  \* seconds the clock runs through
MaxTTL == 1        \* the largest ttl_seconds of a SoftwareCache

c_software_xlsx == <<115, 111, 102, 116, 119, 97, 114, 101, 46, 120, 108, 115, 120>>  \* "software.xlsx"
c_sheets_abc == <<115, 104, 101, 101, 116, 115, 58, 97, 98, 99>>  \* "sheets:abc"
c_json == <<46, 106, 115, 111, 110>>  \* ".json"
c_Acme == <<65, 99, 109, 101>>  \* "Acme"

CacheSources == {c_software_xlsx, c_sheets_abc}

\* SoftwareCache._get_cache_key: sha256(f"1:{source}").hexdigest()[:16]
get_cache_key(source_id) ==
    CASE source_id = c_software_xlsx -> <<55, 57, 97, 53, 52, 48, 53, 101, 56, 97, 49, 52, 50, 98, 97, 52>>  \* "79a5405e8a142ba4"
      [] source_id = c_sheets_abc -> <<50, 56, 51, 48, 49, 49, 51, 99, 57, 49, 57, 51, 101, 51, 51, 48>>  \* "2830113c9193e330"

\* SoftwareCache._get_cache_path, inside cache_dir
get_cache_path(source_id) == get_cache_key(source_id) \o c_json

CachePaths == {get_cache_path(source_id) : source_id \in CacheSources}

\* dt + timedelta(seconds=n), within the day
add_seconds(dt, n) ==
    LET seconds == dt.l[4] * 3600 + dt.l[5] * 60 + dt.l[6] + n
    IN  DateTimeV(dt.l[1], dt.l[2], dt.l[3],
                  seconds \div 3600, (seconds % 3600) \div 60, seconds % 60)

CacheEpoch == DateTimeV(2024, 3, 14, 12, 0, 58)

\* datetime.now() when the clock shows i
CacheClock(i) == add_seconds(CacheEpoch, i)

\* datetime.isoformat(), no microseconds
isoformat(dt) ==
    Digits(dt.l[1]) \o <<45>> \o TwoDigits(dt.l[2]) \o <<45>> \o TwoDigits(dt.l[3])
    \o <<84>> \o TwoDigits(dt.l[4]) \o <<58>> \o TwoDigits(dt.l[5])
    \o <<58>> \o TwoDigits(dt.l[6])

\* datetime.fromisoformat(text) of a YYYY-MM-DDTHH:MM:SS text
datetime_fromisoformat(text) ==
    IF /\ Len(text) = 19
       /\ text[5] = 45 /\ text[8] = 45 /\ text[11] = 84 /\ text[14] = 58 /\ text[17] = 58
       /\ \A i \in (1..19) \ {5, 8, 11, 14, 17} : text[i] \in 48..57
    THEN LET number(a, b) == DigitsValue(SubSeq(text, a, b))
         IN  IF \/ number(6, 7) \notin 1..12
                \/ number(9, 10) \notin 1..DaysInMonth(number(1, 4), number(6, 7))
                \/ number(12, 13) > 23 \/ number(15, 16) > 59 \/ number(18, 19) > 59
             THEN ValueError
             ELSE DateTimeV(number(1, 4), number(6, 7), number(9, 10),
                            number(12, 13), number(15, 16), number(18, 19))
    ELSE ValueError

\* the values of the members of BenchmarkStatus
BENCHMARK_STATUS_VALUES ==
    {<<"NOT_YET", <<110, 111, 116, 95, 121, 101, 116>>>>,  \* "not_yet"
     <<"CPU_ONLY", <<99, 112, 117, 95, 111, 110, 108, 121>>>>,  \* "cpu_only"
     <<"GPU_ONLY", <<103, 112, 117, 95, 111, 110, 108, 121>>>>,  \* "gpu_only"
     <<"CPU_OR_GPU", <<99, 112, 117, 95, 111, 114, 95, 103, 112, 117>>>>,  \* "cpu_or_gpu"
     <<"BOTH", <<98, 111, 116, 104>>>>}  \* "both"

\* SoftwareCollection.model_dump(mode="json"): members become their values
\* and datetimes their ISO texts
model_dump(collection) ==
    [packages |->
        [i \in 1..Len(collection.packages) |->
            [name |-> collection.packages[i].name,
             benchmark_status |->
                StrV((CHOOSE p \in BENCHMARK_STATUS_VALUES :
                         p[1] = collection.packages[i].benchmark_status)[2])]],
     source_file |-> collection.source_file,
     fetched_at |-> IF collection.fetched_at = None THEN None
                    ELSE StrV(isoformat(collection.fetched_at))]

\* SoftwareCollection.model_validate(data)
model_validate(data) ==
    [packages |->
        [i \in 1..Len(data.packages) |->
            [name |-> data.packages[i].name,
             benchmark_status |->
                (CHOOSE p \in BENCHMARK_STATUS_VALUES :
                    p[2] = data.packages[i].benchmark_status.s)[1]]],
     source_file |-> data.source_file,
     fetched_at |-> IF data.fetched_at = None THEN None
                    ELSE datetime_fromisoformat(data.fetched_at.s)]

\* CacheEntry(...).to_dict()
CacheEntry_to_dict(data, created_at, source_id, ttl_seconds) ==
    [data |-> data, created_at |-> isoformat(created_at), source |-> source_id,
     ttl_seconds |-> ttl_seconds]

\* mutant: an entry expires at its deadline, not after it
is_expired_at_deadline(d, current) ==
    ~DateTimeLess(current, add_seconds(datetime_fromisoformat(d.created_at), d.ttl_seconds))

\* CacheEntry.from_dict(d).is_expired, current being datetime.now()
is_expired(d, current) ==
    DateTimeLess(add_seconds(datetime_fromisoformat(d.created_at), d.ttl_seconds), current)

\* SoftwareCache.get: what it returns and the files it leaves
cache_get(files, source_id, current) ==
    LET cache_path == get_cache_path(source_id)
    IN  IF files[cache_path] = Missing THEN [result |-> None, files |-> files]
        ELSE IF \/ datetime_fromisoformat(files[cache_path].created_at) = ValueError
                \/ is_expired(files[cache_path], current)
        THEN [result |-> None, files |-> [files EXCEPT ![cache_path] = Missing]]
        ELSE [result |-> model_validate(files[cache_path].data), files |-> files]

\* SoftwareCache.set: the files it leaves
cache_set(files, source_id, collection, current, ttl_seconds) ==
    [files EXCEPT ![get_cache_path(source_id)] =
        CacheEntry_to_dict(model_dump(collection), current, source_id, ttl_seconds)]

\* SoftwareCache.invalidate
cache_invalidate(files, source_id) ==
    LET cache_path == get_cache_path(source_id)
    IN  IF files[cache_path] # Missing
        THEN [result |-> BoolV(TRUE), files |-> [files EXCEPT ![cache_path] = Missing]]
        ELSE [result |-> BoolV(FALSE), files |-> files]

\* SoftwareCache.clear
cache_clear(files) ==
    [result |-> IntV(Cardinality({path \in DOMAIN files : files[path] # Missing})),
     files |-> [path \in DOMAIN files |-> Missing]]

\* mutant: the fresh collection is returned but not stored
CachedFetcher_fetch_without_set(files, cache_key, force_refresh, fresh, current, ttl_seconds) ==
    LET cached == IF force_refresh THEN [result |-> None, files |-> files]
                  ELSE cache_get(files, cache_key, current)
    IN  IF cached.result # None
        THEN [result |-> cached.result, files |-> cached.files, calls |-> 0]
        ELSE [result |-> fresh, files |-> cached.files, calls |-> 1]

\* CachedFetcher.fetch; fresh is what self.fetcher.fetch() returns when it is
\* called, calls the number of times it is
CachedFetcher_fetch(files, cache_key, force_refresh, fresh, current, ttl_seconds) ==
    LET cached == IF force_refresh THEN [result |-> None, files |-> files]
                  ELSE cache_get(files, cache_key, current)
    IN  IF cached.result # None
        THEN [result |-> cached.result, files |-> cached.files, calls |-> 0]
        ELSE [result |-> fresh,
              files |-> cache_set(cached.files, cache_key, fresh, current, ttl_seconds),
              calls |-> 1]

\* the package lists of the collections
PackageLists ==
    {<<>>, <<[name |-> StrV(c_Acme), benchmark_status |-> "CPU_ONLY"]>>}

\* the collections a caller can hand to set() when the clock shows i
Collections(i) ==
    [packages : PackageLists, source_file : {StrV(c_software_xlsx)},
     fetched_at : {None, CacheClock(i)}]

\* the collections the data source can return when the clock shows i
FreshCollections(cache_key, i) ==
    [packages : PackageLists, source_file : {StrV(cache_key)}, fetched_at : {CacheClock(i)}]

NoCall == [op |-> "none", source |-> <<>>, force_refresh |-> FALSE, result |-> None,
           calls |-> 0]

CacheInit ==
    /\ cache_files = [path \in CachePaths |-> Missing]
    /\ cache_ttl \in 0..MaxTTL
    /\ cache_now = 0
    /\ last_call = NoCall
    /\ stored = [source_id \in CacheSources |-> Missing]
    /\ fetched = [source_id \in CacheSources |-> Missing]
    /\ HalIdle
    /\ PartnersIdle
    /\ CallIdle
    /\ TeamIdle
    /\ SoftwareIdle
    /\ PagingIdle
    /\ ViewIdle
    /\ ReleasesIdle

\* cache.get(source)
CacheGet(source_id) ==
    /\ cache_files' = cache_get(cache_files, source_id, CacheClock(cache_now)).files
    /\ last_call' = [NoCall EXCEPT !.op = "get", !.source = source_id,
                        !.result = cache_get(cache_files, source_id, CacheClock(cache_now)).result]
    /\ UNCHANGED <<cache_ttl, cache_now, stored, fetched>>
    /\ UNCHANGED not_cache_vars

\* cache.set(source, collection)
CacheSet(source_id, collection) ==
    /\ cache_files' = cache_set(cache_files, source_id, collection, CacheClock(cache_now),
                                cache_ttl)
    /\ stored' = [stored EXCEPT ![source_id] =
                     [collection |-> collection, at |-> cache_now, ttl |-> cache_ttl]]
    /\ last_call' = [NoCall EXCEPT !.op = "set", !.source = source_id]
    /\ UNCHANGED <<cache_ttl, cache_now, fetched>>
    /\ UNCHANGED not_cache_vars

\* cache.invalidate(source), which CachedFetcher.invalidate() calls with its key
CacheInvalidate(source_id) ==
    /\ cache_files' = cache_invalidate(cache_files, source_id).files
    /\ stored' = [stored EXCEPT ![source_id] = Missing]
    /\ last_call' = [NoCall EXCEPT !.op = "invalidate", !.source = source_id,
                        !.result = cache_invalidate(cache_files, source_id).result]
    /\ UNCHANGED <<cache_ttl, cache_now, fetched>>
    /\ UNCHANGED not_cache_vars

\* cache.clear()
CacheClear ==
    /\ cache_files' = cache_clear(cache_files).files
    /\ stored' = [source_id \in CacheSources |-> Missing]
    /\ last_call' = [NoCall EXCEPT !.op = "clear", !.result = cache_clear(cache_files).result]
    /\ UNCHANGED <<cache_ttl, cache_now, fetched>>
    /\ UNCHANGED not_cache_vars

\* a second goes by
CacheTick ==
    /\ cache_now < MaxCacheTime
    /\ cache_now' = cache_now + 1
    /\ last_call' = [NoCall EXCEPT !.op = "tick"]
    /\ UNCHANGED <<cache_files, cache_ttl, stored, fetched>>
    /\ UNCHANGED not_cache_vars

CacheNext ==
    \/ \E source_id \in CacheSources : CacheGet(source_id)
    \/ \E source_id \in CacheSources : \E collection \in Collections(cache_now) :
          CacheSet(source_id, collection)
    \/ \E source_id \in CacheSources : CacheInvalidate(source_id)
    \/ CacheClear
    \/ CacheTick

SpecCache == CacheInit /\ [][CacheNext]_vars

\* CachedFetcher(fetcher, cache).fetch(force_refresh), the key of the fetcher
\* being cache_key
CachedFetch(cache_key, force_refresh) ==
    \E fresh \in FreshCollections(cache_key, cache_now) :
        LET done == CachedFetcher_fetch(cache_files, cache_key, force_refresh, fresh,
                                        CacheClock(cache_now), cache_ttl)
        IN  /\ cache_files' = done.files
            /\ last_call' = [op |-> "fetch", source |-> cache_key,
                             force_refresh |-> force_refresh, result |-> done.result,
                             calls |-> done.calls]
            /\ fetched' = IF done.calls = 0 THEN fetched
                          ELSE [fetched EXCEPT ![cache_key] = fresh]
            /\ stored' = IF done.calls = 0 THEN stored
                         ELSE [stored EXCEPT ![cache_key] =
                                  [collection |-> fresh, at |-> cache_now,
                                   ttl |-> cache_ttl]]
            /\ UNCHANGED <<cache_ttl, cache_now>>
            /\ UNCHANGED not_cache_vars

CachedFetcherNext ==
    \/ \E cache_key \in CacheSources, force_refresh \in BOOLEAN :
          CachedFetch(cache_key, force_refresh)
    \/ \E cache_key \in CacheSources : CacheInvalidate(cache_key)
    \/ CacheTick

SpecCachedFetcher == CacheInit /\ [][CachedFetcherNext]_vars

(***************************************************************************)
(* harvest/releases.py: fetch_all_deliverables asks the GitHub API for the *)
(* releases of every configured deliverable and selects among them.       *)
(***************************************************************************)
MaxReleases == 2   \* releases a repository has

g_v1 == <<118, 49, 46, 48>>   \* "v1.0"
g_v2 == <<118, 50, 46, 48>>   \* "v2.0"
g_v3 == <<118, 51, 46, 48>>   \* "v3.0"
g_v9 == <<118, 57, 46, 48>>   \* "v9.0"
g_D1 == <<68, 49, 46, 49>>   \* "D1.1"
g_D2 == <<68, 50, 46, 49>>   \* "D2.1"
g_repo1 == <<110, 117, 109, 112, 101, 120, 47, 101, 120, 97, 45, 109, 97, 45, 100, 49, 46, 49>>   \* "numpex/exa-ma-d1.1"
g_repo2 == <<110, 117, 109, 112, 101, 120, 47, 101, 120, 97, 45, 109, 97, 45, 100, 50, 46, 49>>   \* "numpex/exa-ma-d2.1"
g_NA == <<78, 47, 65>>   \* "N/A"
g_utc == <<43, 48, 48, 58, 48, 48>>   \* "+00:00"
g_march == <<50, 48, 50, 52, 45, 48, 51, 45, 49, 52, 84, 49, 50, 58, 48, 48, 58, 53, 56, 90>>   \* "2024-03-14T12:00:58Z"
g_may == <<50, 48, 50, 52, 45, 48, 53, 45, 48, 50, 84, 48, 56, 58, 51, 48, 58, 48, 48, 90>>   \* "2024-05-02T08:30:00Z"

\* str.replace("Z", "+00:00")
RECURSIVE replace_Z(_)
replace_Z(text) ==
    IF text = <<>> THEN <<>>
    ELSE (IF Head(text) = 90 THEN g_utc ELSE <<Head(text)>>) \o replace_Z(Tail(text))

\* datetime.fromisoformat of a timestamp of the API after replace_Z: the offset,
\* when there is one, is +00:00
fromisoformat_utc(text) ==
    IF Len(text) = 25 /\ SubSeq(text, 20, 25) = g_utc
    THEN datetime_fromisoformat(SubSeq(text, 1, 19))
    ELSE datetime_fromisoformat(text)

\* date.strftime("%Y-%m-%d"); the C library writes the year without padding
strftime_Ymd(dt) ==
    Digits(dt.l[1]) \o <<45>> \o TwoDigits(dt.l[2]) \o <<45>> \o TwoDigits(dt.l[3])

\* the date of format_release: "N/A" without published_at, the day of the
\* timestamp, or its first ten characters when it is not a timestamp
release_date(published_at) ==
    IF published_at = <<>> THEN g_NA
    ELSE LET date == fromisoformat_utc(replace_Z(published_at))
         IN  IF date.t = "ValueError"
             THEN SubSeq(published_at, 1, Min(10, Len(published_at)))
             ELSE strftime_Ymd(date)

\* format_release(release, deliverable, is_latest, is_featured)
format_release(release, deliverable, is_latest, is_featured) ==
    [deliverable_id |-> deliverable.id,
     repo |-> deliverable.repo,
     version |-> release.tag_name,
     date |-> release_date(release.published_at),
     prerelease |-> release.prerelease,
     draft |-> release.draft,
     is_latest |-> is_latest,
     is_featured |-> is_featured]

\* if len(selected_releases) < max_releases or is_featured
may_select(selected_releases, max_releases, is_featured) ==
    Len(selected_releases) < max_releases \/ is_featured

\* for release in releases: ... of fetch_all_deliverables
RECURSIVE select_releases(_, _, _, _, _, _, _)
select_releases(releases, i, deliverable, include_prereleases, max_releases, selected_releases, is_first) ==
    IF i > Len(releases) THEN selected_releases
    ELSE
      LET release == releases[i]
      IN  IF release.draft \/ (~include_prereleases /\ release.prerelease)
          THEN select_releases(releases, i + 1, deliverable, include_prereleases,
                               max_releases, selected_releases, is_first)
          ELSE
            LET is_featured == Member(release.tag_name, deliverable.featured_versions)
            IN  select_releases(
                    releases, i + 1, deliverable, include_prereleases, max_releases,
                    IF /\ may_select(selected_releases, max_releases, is_featured)
                       /\ \A j \in 1..Len(selected_releases) :
                              selected_releases[j].version # release.tag_name
                    THEN Append(selected_releases,
                                format_release(release, deliverable, is_first, is_featured))
                    ELSE selected_releases,
                    FALSE)

\* list.sort(key=lambda x: x["date"], reverse=True) is stable: an item goes
\* behind the items whose date is greater than or equal to its own
RECURSIVE insert_by_date(_, _)
insert_by_date(sorted, item) ==
    IF sorted = <<>> THEN <<item>>
    ELSE IF StrLess(Head(sorted).date, item.date)
    THEN <<item>> \o sorted
    ELSE <<Head(sorted)>> \o insert_by_date(Tail(sorted), item)

RECURSIVE sort_by_date(_, _, _)
sort_by_date(items, i, sorted) ==
    IF i > Len(items) THEN sorted
    ELSE sort_by_date(items, i + 1, insert_by_date(sorted, items[i]))

\* for deliverable in config.get("deliverables", []): ...
RECURSIVE deliverables_loop(_, _, _, _, _, _)
deliverables_loop(deliverables, i, api, include_prereleases, max_releases, result) ==
    IF i > Len(deliverables) THEN result
    ELSE deliverables_loop(
             deliverables, i + 1, api, include_prereleases, max_releases,
             result \o sort_by_date(
                           select_releases(api[deliverables[i].repo], 1, deliverables[i],
                                           include_prereleases, max_releases, <<>>, TRUE),
                           1, <<>>))

\* fetch_all_deliverables(config, latest_only); api[repo] is what
\* fetch_releases(repo, limit=20) returns
fetch_all_deliverables(configuration, api, latest_only_argument) ==
    LET settings == configuration.settings
        include_prereleases == bool(get(settings, "include_prereleases", BoolV(FALSE)))
        max_releases ==
            IF latest_only_argument \/ bool(get(settings, "latest_only", BoolV(FALSE)))
            THEN 1
            ELSE get(settings, "max_releases", IntV(5)).n
    IN  deliverables_loop(configuration.deliverables, 1, api, include_prereleases,
                          max_releases, <<>>)

\* a release as the API returns it
Release(tag_name, draft, prerelease, published_at) ==
    [tag_name |-> tag_name, draft |-> draft, prerelease |-> prerelease,
     published_at |-> published_at]

\* the tag of the k-th release a repository made
Tag(k) == <<118>> \o Digits(k) \o <<46, 48>>

\* the releases of a repository, the newest first: released, draft or
\* prerelease, a draft without published_at
ReleaseLists ==
    UNION { { [i \in 1..n |-> Release(Tag(n + 1 - i), kind[i] = "draft",
                                      kind[i] = "prerelease",
                                      IF kind[i] = "draft" THEN <<>> ELSE published[i])] :
                kind \in [1..n -> {"release", "draft", "prerelease"}],
                published \in [1..n -> {g_march, g_may}] } :
            n \in 0..MaxReleases }

Deliverable(id, repo, featured_versions) ==
    [id |-> id, repo |-> repo, featured_versions |-> featured_versions]

\* deliverables.yaml: the settings, each one given or left out, and one or two
\* deliverables, the first with or without featured versions
Settings ==
    { [key \in {"include_prereleases", "max_releases", "latest_only"} |->
          CASE key = "include_prereleases" -> pre
            [] key = "max_releases" -> limit
            [] OTHER -> latest] :
        pre \in {Missing, BoolV(TRUE)},
        limit \in {Missing, IntV(1)},
        latest \in {Missing, BoolV(FALSE), BoolV(TRUE)} }

Configurations ==
    { [settings |-> settings, deliverables |-> deliverables] :
        settings \in Settings,
        deliverables \in
            UNION { { <<Deliverable(g_D1, g_repo1, featured)>>,
                      <<Deliverable(g_D1, g_repo1, featured),
                        Deliverable(g_D2, g_repo2, <<>>)>> } :
                    featured \in {<<>>, <<g_v1>>, <<g_v1, g_v9>>} } }

\* what the API holds: any releases for the first repository, none or one
\* for the second
Repositories ==
    { [repo \in {g_repo1, g_repo2} |-> IF repo = g_repo1 THEN first ELSE second] :
        first \in ReleaseLists,
        second \in {<<>>, <<Release(g_v3, FALSE, FALSE, g_march)>>} }

ReleasesInit ==
    /\ config \in Configurations
    /\ github \in Repositories
    /\ latest_only = FALSE
    /\ all_releases = <<>>
    /\ releases_pc = "configured"
    /\ HalIdle
    /\ PartnersIdle
    /\ CallIdle
    /\ TeamIdle
    /\ SoftwareIdle
    /\ PagingIdle
    /\ CacheIdle
    /\ ViewIdle

\* main(): releases = fetch_all_deliverables(config, latest_only=args.latest_only)
FetchAllDeliverables(latest_only_argument) ==
    /\ releases_pc = "configured"
    /\ latest_only' = latest_only_argument
    /\ all_releases' = fetch_all_deliverables(config, github, latest_only_argument)
    /\ releases_pc' = "fetched"
    /\ UNCHANGED <<config, github>>
    /\ UNCHANGED not_release_vars

ReleasesNext == \E latest_only_argument \in BOOLEAN : FetchAllDeliverables(latest_only_argument)

SpecReleases == ReleasesInit /\ [][ReleasesNext]_vars

\* C14: for every calendar date, parse_date of the French day-month-year text and
\* parse_date of the numeric dd/mm/yyyy text return the same date, and not None.
C14_FrenchEqualsNumeric ==
    (call_pc = "parse_date" /\ arg \in DateArguments) =>
        /\ ret[1].t = "datetime"
        /\ ret[1] = ret[2]

\* C20: no classifier and no field parser raises: whatever the text, and for
\* None, each returns a member of its enumeration, and parse_date a date or None.
C20_NeverRaises ==
    \A i \in 1..Len(ret) :
        /\ call_pc = "detect_gender" => ret[i] \in {"female", "male", "unknown"}
        /\ call_pc = "PartnerType.from_string" =>
               ret[i][1] \in {"ENTREPRISE", "EPIC", "ACADEMIC", "PUBLIC_RESEARCH",
                              "LARGE_SCALE_RESEARCH_INFRA", "OTHER"}
        /\ call_pc = "PartnerStatus.from_string" =>
               ret[i] \in {"POSITIVE_RESPONSE", "WORK_PROGRAMME_DISCUSSED",
                           "INITIAL_EMAIL_SENT", "NOT_CONTACTED", "UNKNOWN"}
        /\ call_pc = "PositionType.from_string" =>
               ret[i] \in {"PHD", "POSTDOC", "RESEARCH_ENGINEER", "PERMANENT", "OTHER"}
        /\ call_pc = "BenchmarkStatus.from_string" =>
               ret[i] \in {"NOT_YET", "CPU_ONLY", "GPU_ONLY", "CPU_OR_GPU", "BOTH"}
        /\ call_pc = "infer_publication_type" =>
               ret[i].publication_type
                   \in {"journal-article", "conference-paper", "book-chapter", "book",
                        "report", "thesis", "poster", "patent", "software", "dataset",
                        "preprint", "other"}
        /\ call_pc = "parse_date" => ret[i].t \in {"datetime", "none"}

(***************************************************************************)
(* Unique personnel.                                                       *)
(***************************************************************************)
\* first name + space + surname of the row a person was built from
FullNameString(person) == person.first_name \o <<32>> \o person.surname

\* the positions of personnel that hold the first record of their full name
FirstOfFullName(personnel) ==
    {i \in 1..Len(personnel) :
        \A j \in 1..(i - 1) : FullNameString(personnel[j]) # FullNameString(personnel[i])}

\* the records of personnel at the positions in keep, from position i on
RECURSIVE KeptFrom(_, _, _)
KeptFrom(personnel, keep, i) ==
    IF i > Len(personnel) THEN <<>>
    ELSE (IF i \in keep THEN <<personnel[i]>> ELSE <<>>)
         \o KeptFrom(personnel, keep, i + 1)

\* C13: unique_personnel() returns exactly the first record of every distinct
\* full-name string (first name, a space, surname), whole and in collection
\* order; the later records with the same full name are dropped.
C13_UniqueKeepsFirst ==
    team_pc = "unique" =>
        unique = KeptFrom(recruited.personnel, FirstOfFullName(recruited.personnel), 1)

\* two records with the same full name, built from different first names and
\* carrying different e-mails, of which the first one was kept
C13_Witness ==
    /\ team_pc = "unique"
    /\ Len(recruited.personnel) = 2
    /\ Len(unique) = 1
    /\ recruited.personnel[1].first_name # recruited.personnel[2].first_name
    /\ recruited.personnel[1].email # recruited.personnel[2].email
    /\ unique[1].email = recruited.personnel[1].email

(***************************************************************************)
(* Activity at evaluation time.                                            *)
(***************************************************************************)
\* the answers in a are those of the instant a.at: no end date, or an end
\* date strictly after that instant
ActiveAtEvaluationTime(a, personnel) ==
    /\ Len(a.values) = Len(personnel)
    /\ \A i \in 1..Len(personnel) :
          a.values[i] = (\/ personnel[i].end_date.t = "none"
                         \/ DateTimeLess(Clock(a.at), personnel[i].end_date))

\* C15: is_active is evaluated against the clock of the call: no end date is
\* always active, an end date is active exactly while it is strictly after
\* the current time, and between two calls with an advancing clock no person
\* goes from inactive back to active.
C15_ActiveMonotone ==
    [][team_pc' = "evaluated" =>
          /\ ActiveAtEvaluationTime(active', recruited'.personnel)
          /\ team_pc = "evaluated" =>
                \A i \in 1..Len(active.values) :
                    ~active.values[i] => ~active'.values[i]]_vars

\* a person whose end date equals the current instant: active at the first
\* instant, inactive now; next to it, a person without end date still active
C15_Witness ==
    /\ team_pc = "evaluated"
    /\ active.at > 1
    /\ \E i \in 1..Len(recruited.personnel) :
          /\ recruited.personnel[i].end_date = Clock(active.at)
          /\ is_active(recruited.personnel[i], Clock(1))
          /\ ~active.values[i]
    /\ \E i \in 1..Len(recruited.personnel) :
          /\ recruited.personnel[i].end_date.t = "none"
          /\ active.values[i]

(***************************************************************************)
(* Gender of a person built from a row.                                    *)
(***************************************************************************)
\* the first-name table applied to the lower-cased first token of the name
NameLookup(first_name) ==
    LET token == split(before_hyphen(lower(first_name)))[1]
    IN  IF token \in FEMALE_NAMES THEN "female"
        ELSE IF token \in MALE_NAMES THEN "male"
        ELSE "unknown"

\* what the 'Woman' cell and the first name of a row ask for
GenderOfRow(row) ==
    LET woman == cell(row, "Woman")
    IN  IF woman = IntV(1) THEN "female"
        ELSE IF woman = IntV(0) THEN "male"
        ELSE NameLookup(strip(cell(row, "First name").s))

\* C16: the gender of a person is the 'Woman' cell when it is 1 or 0, and the
\* first-name lookup when the cell is blank or anything else.
C16_GenderFallsBackToName ==
    (team_pc = "fetched" /\ Len(recruited.personnel) = Len(team_rows)) =>
        \A i \in 1..Len(team_rows) :
            gender(recruited.personnel[i]) = GenderOfRow(team_rows[i])

(***************************************************************************)
(* Two runs on the same sheet.                                             *)
(***************************************************************************)
\* C19: fetching the same rows twice with the same options yields the same
\* collection, records and collection-level fields alike, whenever the two
\* runs happen.
C19_SameCollectionTwice ==
    recruited_before # NoCollection => recruited = recruited_before

(***************************************************************************)
(* Rows without identity in the tabular sheets.                            *)
(***************************************************************************)
\* a cell that is absent, None, NaN, empty or only white space
Blank(v) ==
    \/ v.t \in {"missing", "none", "nan"}
    \/ v.t = "str" /\ strip(v.s) = <<>>

\* the rows of sheet that have a value in every one of columns, in row order
RowsWith(sheet, columns) ==
    SelectSeq(sheet, LAMBDA row : \A c \in columns : ~Blank(row[c]))

\* every fetcher has returned, the personnel fetch without filter and the
\* partner fetch without merge
AllFetched ==
    /\ partners_pc = "collected"
    /\ team_pc = "fetched"
    /\ fetch_options = [funded_only |-> FALSE, active_only |-> FALSE]
    /\ software_pc = "fetched"
    /\ applications_pc = "fetched"

\* the partners, the personnel and the software packages are the records of
\* the rows that have their identity cells, in row order
IdentifiedRowsKept ==
    /\ LET kept == RowsWith(rows, {"Entreprises"})
       IN  partners = [i \in 1..Len(kept) |-> parse_row(kept[i])]
    /\ LET kept == RowsWith(team_rows, {"First name", "Surname"})
       IN  recruited.personnel = [i \in 1..Len(kept) |-> team_parse_row(kept[i])]
    /\ LET kept == RowsWith(software_rows, {"Name"})
       IN  packages.packages =
               [i \in 1..Len(kept) |->
                   parse_software_row(kept[i], fetch_packaging(packaging_rows))]

\* C17, as stated: a partner row without name, a personnel row without first
\* name or surname, a software row without name and an application row
\* without id yield no record, and the output is exactly the records of the
\* other rows, in row order.
C17_BlankIdentitySkipped ==
    AllFetched =>
        /\ IdentifiedRowsKept
        /\ LET kept == RowsWith(application_rows, {"id"})
           IN  applications.applications =
                   [i \in 1..Len(kept) |-> parse_application_row(kept[i])]

\* C17, amended: an application row is also omitted when its name is blank;
\* the output of every fetcher is exactly the records of the rows that have
\* their identity cells (for an application: id and name), in row order.
C17_BlankIdentityOrNameSkipped ==
    AllFetched =>
        /\ IdentifiedRowsKept
        /\ LET kept == RowsWith(application_rows, {"id", "name"})
           IN  applications.applications =
                   [i \in 1..Len(kept) |-> parse_application_row(kept[i])]

\* sheets of two rows whose first row lacks its identity and whose second
\* row has it: every fetcher returned the record of the second row alone
C17_Witness ==
    /\ AllFetched
    /\ Len(rows) = 2
    /\ Blank(rows[1]["Entreprises"]) /\ Blank(team_rows[1]["First name"])
    /\ Blank(software_rows[1]["Name"]) /\ Blank(application_rows[1]["id"])
    /\ Len(partners) = 1 /\ partners[1] = parse_row(rows[2])
    /\ Len(recruited.personnel) = 1
    /\ recruited.personnel[1] = team_parse_row(team_rows[2])
    /\ Len(packages.packages) = 1
    /\ packages.packages[1].name = software_rows[2]["Name"]
    /\ Len(applications.applications) = 1
    /\ applications.applications[1].id = application_rows[2]["id"]

(***************************************************************************)
(* Type and size of a partner label.                                       *)
(***************************************************************************)
\* the call was PartnerType.from_string on the label of type word tw and
\* size word sw
LabelClassified(tw, sw) ==
    /\ call_pc = "PartnerType.from_string"
    /\ arg = <<PartnerLabel(tw, sw)>>

\* C21, as stated: the size returned for a label with a size word is the one
\* of that word, whichever type word the label also has, and the type
\* returned is the one of the type word.
C21_SizeIndependentOfType ==
    \A tw \in 1..Len(TYPE_WORDS), sw \in 1..Len(SIZE_WORDS) :
        LabelClassified(tw, sw) =>
            /\ ret[1][1] = TYPE_WORDS[tw][2]
            /\ SIZE_WORDS[sw][1] # <<>> => ret[1][2] = SIZE_WORDS[sw][2]

\* C21, amended: the type returned is the one of the type word; the size is
\* the one of the size word for an entreprise and for a label without type
\* word, and Research for every other type, whatever the size word.
C21_SizeOfEntrepriseOrOther ==
    \A tw \in 1..Len(TYPE_WORDS), sw \in 1..Len(SIZE_WORDS) :
        LabelClassified(tw, sw) =>
            ret[1] = <<TYPE_WORDS[tw][2],
                       IF TYPE_WORDS[tw][2] \in {"ENTREPRISE", "OTHER"}
                       THEN SIZE_WORDS[sw][2] ELSE "RESEARCH">>

\* an entreprise label with both "sme" and "large group" classified Large
\* Group
C21_Witness ==
    /\ LabelClassified(2, 6)
    /\ ret[1] = <<"ENTREPRISE", "LARGE">>

\* the trimmed, lower-cased text of a text cell
Token(value) == strip(lower(value.s))

\* C22: parse_bool returns true exactly for the boolean true, for the number 1
\* (the integer 1 or the float 1.0) and for a text that trimmed and lower-cased
\* is one of true, yes, 1, x, available; it returns false for every other
\* value, blank, NaN and None included.
C22_TrueExactlyForOneAndTokens ==
    call_pc = "parse_bool" =>
        (ret[1] <=> \/ arg[1] = BoolV(TRUE)
                    \/ arg[1] = IntV(1)
                    \/ arg[1] = FloatV(10)
                    \/ arg[1].t = "str" /\ Token(arg[1]) \in TRUE_TOKENS)

\* the rule of C23, read off the cells of a package
EligibleByRule(package) ==
    /\ package.license.t = "str" /\ Len(package.license.s) > 0
    /\ Len(package.devops) > 0
    /\ package.benchmark_status \in {"CPU_ONLY", "GPU_ONLY", "CPU_OR_GPU", "BOTH"}

\* the positions of the packages that satisfy the rule
RuleKept == {i \in 1..Len(packages.packages) : EligibleByRule(packages.packages[i])}

\* the Benchmarked cell is blank, NOT YET, or mentions neither cpu nor gpu
NotBenchmarked(row) ==
    LET value == row["Benchmarked"]
    IN  \/ value.t # "str"
        \/ strip(value.s) = <<>>
        \/ upper(strip(value.s)) = e_NOT_YET
        \/ ~Contains(lower(value.s), <<99, 112, 117>>)
           /\ ~Contains(lower(value.s), <<103, 112, 117>>)

\* C23: a package is eligible for page generation exactly when its license is
\* non-empty, its DevOps tag list is non-empty and its benchmark status is
\* present and not "not yet"; eligible_packages is the sub-sequence, in order,
\* of the packages that satisfy the rule, and never holds a package of a row
\* whose Benchmarked cell is blank, NOT YET, or mentions neither cpu nor gpu.
C23_EligibleExactlyByRule ==
    software_pc = "eligible" =>
        /\ Len(eligible) = Cardinality(RuleKept)
        /\ \A i \in RuleKept :
               eligible[Cardinality({j \in RuleKept : j <= i})] = packages.packages[i]
        /\ \A i \in 1..Len(software_rows) :
               NotBenchmarked(software_rows[i]) =>
                   \A k \in 1..Len(eligible) : eligible[k].name # StrV(PackageName(i))

\* an eligible package after one that is not, in a sheet with a row that is
\* not benchmarked
C23_Witness ==
    /\ software_pc = "eligible"
    /\ Len(packages.packages) = 2
    /\ RuleKept = {2}
    /\ NotBenchmarked(software_rows[1])
    /\ eligible = <<packages.packages[2]>>

\* the records of a stable server, in order
ResultSet == [i \in 1..server.found |-> ServerRecord(i)]

\* C24: the paging loop ends, whatever the responses; the offset of a request
\* is the number of records accumulated so far; and against a stable server
\* the batch handed to select_best_versions is the result set, each record
\* once, in order.
C24_PagingReturnsEveryRecord ==
    /\ [](hal_pc = "waiting" => request = Len(publications))
    /\ []((hal_pc \in {"fetched", "resolved"} /\ server.kind = "stable")
              => publications = ResultSet)
    /\ <>(hal_pc = "fetched")

\* a stable result set returned over more than one page, the last page short
C24_Witness ==
    /\ hal_pc = "resolved"
    /\ server.kind = "stable"
    /\ server.found = 3
    /\ requests = 2
    /\ publications = ResultSet

\* the last set() of a source is still there and its time to live is not over
StoredValid(source_id) ==
    /\ stored[source_id] # Missing
    /\ cache_now <= stored[source_id].at + stored[source_id].ttl

\* C25: get(source) returns the collection the last set(source) stored exactly
\* when no invalidate or clear followed that set and the time is not later
\* than its creation time plus its TTL; otherwise it returns None and leaves no
\* entry for the source; and get, set and invalidate of a source leave the
\* entries of the other sources as they are.
C25_GetReturnsLastSetWithinTTL ==
    /\ [](last_call.op = "get" =>
            IF StoredValid(last_call.source)
            THEN last_call.result = stored[last_call.source].collection
            ELSE /\ last_call.result = None
                 /\ cache_files[get_cache_path(last_call.source)] = Missing)
    /\ [][last_call'.op \in {"get", "set", "invalidate"} =>
            \A other \in CacheSources \ {last_call'.source} :
                cache_files'[get_cache_path(other)] = cache_files[get_cache_path(other)]]_vars

\* a get after the time to live of the entry removed it, the entry of the other
\* source still there
C25_Witness ==
    /\ last_call.op = "get"
    /\ last_call.source = c_software_xlsx
    /\ stored[c_software_xlsx] # Missing
    /\ cache_now > stored[c_software_xlsx].at + stored[c_software_xlsx].ttl
    /\ last_call.result = None
    /\ cache_files[get_cache_path(c_software_xlsx)] = Missing
    /\ cache_files[get_cache_path(c_sheets_abc)] # Missing

\* C26: fetch(force_refresh) with force_refresh false and a valid entry returns
\* the cached collection and does not call the data source; otherwise it calls
\* the data source once, stores what it returned under the key with the
\* current time as creation time, and returns it; either way it returns what
\* the data source returned last.
C26_FetchCallsSourceOnlyWhenNeeded ==
    [][last_call'.op = "fetch" =>
          LET cache_key == last_call'.source
              entry == cache_files'[get_cache_path(cache_key)]
          IN  /\ IF ~last_call'.force_refresh /\ StoredValid(cache_key)
                 THEN /\ last_call'.calls = 0
                      /\ last_call'.result = stored[cache_key].collection
                 ELSE /\ last_call'.calls = 1
                      /\ entry # Missing
                      /\ datetime_fromisoformat(entry.created_at) = CacheClock(cache_now)
                      /\ model_validate(entry.data) = last_call'.result
              /\ last_call'.result = fetched'[cache_key]]_vars

\* a fetch served from the cache a second after the data source was called
C26_Witness ==
    /\ last_call.op = "fetch"
    /\ last_call.calls = 0
    /\ ~last_call.force_refresh
    /\ stored[last_call.source] # Missing
    /\ stored[last_call.source].at < cache_now
    /\ last_call.result = fetched[last_call.source]

\* C27: the personnel list generate_recruited_section and
\* generate_team_asciidoc render is unique_personnel() of the collection after
\* the optional active filter: the same records, with the same field values.
C27_GeneratorsRenderUniquePersonnel ==
    view_pc \in {"section", "asciidoc"} =>
        rendered.personnel =
            unique_personnel(IF rendered.active_only
                             THEN active_personnel(recruited.personnel, Clock(now))
                             ELSE recruited.personnel)

\* the labels a person is listed under
LabelsOf(person) ==
    IF person.work_packages = <<>> THEN {v_Unknown}
    ELSE {person.work_packages[k] : k \in 1..Len(person.work_packages)}

\* a label that does not start with "WP"
NonWP(wp) == ~(Len(wp) >= 2 /\ SubSeq(wp, 1, 2) = v_WP)

\* C30: by_work_package() of a collection TeamFetcher built returns without
\* raising; its groups are the labels of the persons, "Unknown" for a person
\* with none; every group lists the persons with that label in collection
\* order; and the groups come by work-package number, the labels that are not
\* work packages last.
C30_ByWorkPackageTotal ==
    view_pc = "grouped" =>
        /\ by_wp.t = "dict"
        /\ {by_wp.l[g].wp : g \in 1..Len(by_wp.l)}
               = UNION {LabelsOf(recruited.personnel[i]) : i \in 1..Len(recruited.personnel)}
        /\ \A g \in 1..Len(by_wp.l) :
               /\ by_wp.l[g].people
                      = SelectSeq(recruited.personnel,
                                  LAMBDA person : by_wp.l[g].wp \in LabelsOf(person))
               /\ \A h \in (g + 1)..Len(by_wp.l) :
                      /\ by_wp.l[h].wp # by_wp.l[g].wp
                      /\ NonWP(by_wp.l[g].wp) => NonWP(by_wp.l[h].wp)
                      /\ (~NonWP(by_wp.l[g].wp) /\ ~NonWP(by_wp.l[h].wp)) =>
                             wp_sort_key(by_wp.l[g].wp).n <= wp_sort_key(by_wp.l[h].wp).n

\* the partners a deduplicate() call returns, as values
Returned(result) == [j \in 1..Len(result.partners) |-> result.objects[result.partners[j]]]

\* C28: deduplicate() leaves the collection it was called on as it was: every
\* partner of the source has the departments, collaboration types, topics and
\* comments it had before the call; and deduplicate() called again, on the
\* source or on the result, returns a collection equal to the first result.
C28_DeduplicateLeavesSourceUnchanged ==
    Deduplicated =>
        /\ \A i \in 1..Len(source) :
               /\ partners[i].departments = source[i].departments
               /\ partners[i].collaboration_types = source[i].collaboration_types
               /\ partners[i].topics = source[i].topics
               /\ partners[i].comments = source[i].comments
        /\ Returned(deduplicate(partners)) = [j \in 1..Len(deduplicated) |-> Result(j)]
        /\ Returned(deduplicate([j \in 1..Len(deduplicated) |-> Result(j)]))
               = [j \in 1..Len(deduplicated) |-> Result(j)]

\* latest-only is requested by the argument or by the setting
LatestOnlyRequested ==
    latest_only \/ bool(get(config.settings, "latest_only", BoolV(FALSE)))

\* the releases of the API that are not drafts and not excluded prereleases
Candidates(deliverable) ==
    SelectSeq(github[deliverable.repo],
              LAMBDA release :
                  /\ ~release.draft
                  /\ release.prerelease =>
                         bool(get(config.settings, "include_prereleases", BoolV(FALSE))))

\* C29: when latest-only is requested, fetch_all_deliverables returns at most
\* one release per deliverable, and that release is the first of the API that
\* is neither a draft nor an excluded prerelease, flagged is_latest, whatever
\* the configuration, featured versions included.
C29_LatestOnlyReturnsOnePerDeliverable ==
    (releases_pc = "fetched" /\ LatestOnlyRequested) =>
        \A d \in 1..Len(config.deliverables) :
            LET deliverable == config.deliverables[d]
                returned == SelectSeq(all_releases,
                                      LAMBDA r : r.deliverable_id = deliverable.id)
            IN  /\ Len(returned) <= 1
                /\ \A k \in 1..Len(returned) :
                       /\ Candidates(deliverable) # <<>>
                       /\ returned[k].version = Candidates(deliverable)[1].tag_name
                       /\ returned[k].is_latest

====
